---- MODULE Spec2Model ----
(***************************************************************************)
(* SkillVantage: the ingestion pass (Dashboard.processAndUpload), the bulk *)
(* matching pass (geminiService.analyzeSkillset post-processing), the      *)
(* ad-hoc matching effect of the Dashboard, and App.handleAnalysis.        *)
(*                                                                         *)
(* A JavaScript string is modelled as a sequence of one-character strings, *)
(* so that toLowerCase, includes, split, trim and replace are computed.    *)
(***************************************************************************)
EXTENDS Integers, Sequences, FiniteSets, TLC

VARIABLES
    reading,            \* FileReaders started by handleFileUpload, not yet loaded
    pending,            \* the uploads whose analyzeSkillset call is in flight: each
                        \* holds rawData and skillFreq of its processAndUpload
                        \* call and the aiPayload handed to onUpload
    loading,            \* App: loading
    analysisData,       \* App: analysisData, the Dashboard's data (empty: null)
    selectedStudentId,  \* Dashboard state
    selectedRoleTitle,  \* Dashboard state
    dynamicStats        \* Dashboard state (empty: null)

vars == <<reading, pending, loading, analysisData, selectedStudentId,
          selectedRoleTitle, dynamicStats>>

----------------------------------------------------------------------------
(* Bounds of the model *)

MaxRows == 2        \* longest dataset drawn freely from RowPool
MaxUploads == 2     \* file reads and analyses in flight at once

----------------------------------------------------------------------------
(* JavaScript string primitives *)

UpperCaseLetters ==
    <<"A", "B", "C", "D", "E", "F", "G", "H", "I", "J", "K", "L", "M",
      "N", "O", "P", "Q", "R", "S", "T", "U", "V", "W", "X", "Y", "Z">>

LowerCaseLetters ==
    <<"a", "b", "c", "d", "e", "f", "g", "h", "i", "j", "k", "l", "m",
      "n", "o", "p", "q", "r", "s", "t", "u", "v", "w", "x", "y", "z">>

Digits == {"0", "1", "2", "3", "4", "5", "6", "7", "8", "9"}

Min(S) == CHOOSE x \in S : \A y \in S : x <= y
Max(S) == CHOOSE x \in S : \A y \in S : y <= x

toLowerChar(c) ==
    IF \E i \in 1..Len(UpperCaseLetters) : UpperCaseLetters[i] = c
    THEN LowerCaseLetters[CHOOSE i \in 1..Len(UpperCaseLetters) : UpperCaseLetters[i] = c]
    ELSE c

toUpperChar(c) ==
    IF \E i \in 1..Len(LowerCaseLetters) : LowerCaseLetters[i] = c
    THEN UpperCaseLetters[CHOOSE i \in 1..Len(LowerCaseLetters) : LowerCaseLetters[i] = c]
    ELSE c

\* A character outside ASCII is written by its code point. U+FB01 is the
\* ligature of f and i (text copied from a typeset document carries it, as in
\* "<U+FB01>nance"): it is a lowercase letter with no uppercase letter of its own.
fiLigature == "U+FB01"

\* String.prototype.toLowerCase: every character has a one-character result
toLowerCase(s) == [i \in 1..Len(s) |-> toLowerChar(s[i])]

\* String.prototype.toUpperCase follows the full case mapping of Unicode
\* (SpecialCasing), where the uppercase of a character can be several
\* characters: U+FB01 becomes "FI"
toUpperOf(c) == IF c = fiLigature THEN <<"F", "I">> ELSE <<toUpperChar(c)>>

RECURSIVE toUpperCase(_)
toUpperCase(s) == IF s = <<>> THEN <<>> ELSE toUpperOf(Head(s)) \o toUpperCase(Tail(s))

\* String.prototype.includes: t occurs in s as a contiguous run
includes(s, t) ==
    \E i \in 0..(Len(s) - Len(t)) : SubSeq(s, i + 1, i + Len(t)) = t

\* String.prototype.trim (the only whitespace of the model is the blank)
trim(s) ==
    LET solid == {i \in 1..Len(s) : s[i] /= " "}
    IN  IF solid = {} THEN <<>> ELSE SubSeq(s, Min(solid), Max(solid))

\* String.prototype.split(/[,;]/): the pieces between separators, empty ones kept
split(s, seps) ==
    LET at == {i \in 1..Len(s) : s[i] \in seps}
        n == Cardinality(at)
        \* the position of the k-th separator; 0 and Len(s) + 1 bracket the text
        sep(k) == IF k = 0 THEN 0
                  ELSE IF k > n THEN Len(s) + 1
                  ELSE CHOOSE i \in at : Cardinality({j \in at : j < i}) = k - 1
    IN  [k \in 1..(n + 1) |-> SubSeq(s, sep(k - 1) + 1, sep(k) - 1)]

\* s.replace(/['"]/g, ''): every quote character is removed, wherever it stands
replaceQuotes(s) == SelectSeq(s, LAMBDA c : c \notin {"'", "\""})

\* charAt(0) and slice(1)
charAt0(s) == IF Len(s) = 0 THEN <<>> ELSE <<s[1]>>
slice1(s) == IF Len(s) = 0 THEN <<>> ELSE Tail(s)

\* Array.prototype.slice(0, n)
slice0(s, n) == SubSeq(s, 1, IF Len(s) < n THEN Len(s) ELSE n)

\* Number.prototype.toString for a natural number
RECURSIVE toDecimal(_)
toDecimal(n) ==
    LET d == <<"0", "1", "2", "3", "4", "5", "6", "7", "8", "9">>
    IN  IF n < 10 THEN <<d[n + 1]>> ELSE toDecimal(n \div 10) \o <<d[(n % 10) + 1]>>

\* An unsigned decimal literal: digits with at most one point and a digit
IsDecimalLiteral(u) ==
    /\ \A i \in 1..Len(u) : u[i] \in Digits \cup {"."}
    /\ Cardinality({i \in 1..Len(u) : u[i] = "."}) <= 1
    /\ \E i \in 1..Len(u) : u[i] \in Digits

\* !Number(t): Number(t) is 0 (blank text, or a literal of zeros) or NaN (any text
\* that is no numeric literal). Signs, exponents, radix prefixes and "Infinity"
\* are outside the cell texts of the model.
NotNumber(t) ==
    LET u == trim(t)
    IN  IF u = <<>> THEN TRUE
        ELSE IF IsDecimalLiteral(u)
             THEN \A i \in 1..Len(u) : u[i] \in Digits => u[i] = "0"
             ELSE TRUE

----------------------------------------------------------------------------
(* Dashboard.processAndUpload *)

\* A cell value is a string, a number (held as its String() text) or null.
Str(s) == [t |-> "string", v |-> s]
Num(s) == [t |-> "number", v |-> s]
Null == [t |-> "null", v |-> <<>>]

\* !val : the empty string, the number 0 and null are falsy
Falsy(val) ==
    CASE val.t = "string" -> val.v = <<>>
      [] val.t = "number" -> val.v = <<"0">>
      [] OTHER -> TRUE

TopSkillsLimit == 50

\* A JavaScript Set, and the keys of an object, iterate in insertion order: both
\* are sequences without repetition. Loops over long lists are given by their
\* result rather than by recursion, one definition per loop.

\* the elements of a at the positions idx, in increasing position
pick(a, idx) ==
    [k \in 1..Cardinality(idx) |->
        a[CHOOSE i \in idx : Cardinality({j \in idx : j < i}) = k - 1]]

\* Set.prototype.add
setAdd(S, x) == IF \E i \in 1..Len(S) : S[i] = x THEN S ELSE Append(S, x)

\* new Set(array), or add() of each element of a in turn: every value once, at
\* the place of its first occurrence
newSet(a) == pick(a, {i \in 1..Len(a) : \A j \in 1..(i - 1) : a[j] /= a[i]})

\* The property name "__proto__" of a plain object ({}) is the accessor it
\* inherits from Object.prototype: reading it gives the prototype, an object,
\* and assigning a string or a number to it does nothing, so it never becomes a
\* key of the object.
protoKey == <<"_", "_", "p", "r", "o", "t", "o", "_", "_">>
isOwnKeyName(name) == name /= protoKey

\* skillFreq[name] = (skillFreq[name] || 0) + 1 for each name of added in turn:
\* a new key is appended at its first occurrence, each occurrence counts
incrementAll(freq, added) ==
    LET old == [i \in 1..Len(freq) |-> freq[i].name]
        names == newSet(old \o SelectSeq(added, isOwnKeyName))
        before(n) == IF \E i \in 1..Len(freq) : freq[i].name = n
                     THEN freq[CHOOSE i \in 1..Len(freq) : freq[i].name = n].count
                     ELSE 0
    IN  [k \in 1..Len(names) |->
            [name |-> names[k],
             count |-> before(names[k])
                         + Cardinality({i \in 1..Len(added) : added[i] = names[k]})]]

\* the test of the else-if branch that sets department
isDeptColumn(keyStr) ==
    \/ includes(keyStr, <<"d", "e", "p", "t">>)
    \/ includes(keyStr, <<"b", "r", "a", "n", "c", "h">>)
    \/ includes(keyStr, <<"p", "r", "o", "g", "r", "a", "m">>)

\* mutant of isIdColumn: a department-like name is no identifier
isIdColumnUnlessDept(keyStr) ==
    /\ ~isDeptColumn(keyStr)
    /\ \/ includes(keyStr, <<"i", "d">>)
       \/ includes(keyStr, <<"r", "o", "l", "l">>)
       \/ /\ includes(keyStr, <<"s", "t", "u", "d", "e", "n", "t">>)
          /\ ~includes(keyStr, <<"n", "a", "m", "e">>)

\* the test of the if branch that sets studentId
isIdColumn(keyStr) ==
    \/ includes(keyStr, <<"i", "d">>)
    \/ includes(keyStr, <<"r", "o", "l", "l">>)
    \/ /\ includes(keyStr, <<"s", "t", "u", "d", "e", "n", "t">>)
       /\ ~includes(keyStr, <<"n", "a", "m", "e">>)

\* mutant of isSkillsColumn: the name of the column is not looked at
isSkillsColumnAnyName(keyStr, valueStr) == Len(valueStr) > 1

\* the test of the last else-if branch, which reads the cell as a list of skills
isSkillsColumn(keyStr, valueStr) ==
    Len(valueStr) > 1 /\ ~includes(keyStr, <<"n", "a", "m", "e">>)

\* valueStr.split(/[,;]/).map(s => s.trim().replace(/['"]/g, ''))
tokensOf(valueStr) ==
    LET pieces == split(valueStr, {",", ";"})
    IN  [i \in 1..Len(pieces) |-> replaceQuotes(trim(pieces[i]))]

\* t.length > 1 && !Number(t)
keepToken(t) == Len(t) > 1 /\ NotNumber(t)

\* t.charAt(0).toUpperCase() + t.slice(1).toLowerCase()
normalizeToken(t) == toUpperCase(charAt0(t)) \o toLowerCase(slice1(t))

\* tokens.forEach(t => { if (keep) { studentSkills.add(normalized);
\* skillFreq[normalized]++ } }): acc = [studentSkills, skillFreq]
addTokens(tokens, acc) ==
    LET kept == SelectSeq(tokens, keepToken)
        normalized == [i \in 1..Len(kept) |-> normalizeToken(kept[i])]
    IN  [studentSkills |-> newSet(acc.studentSkills \o normalized),
         skillFreq |-> incrementAll(acc.skillFreq, normalized)]

\* the callback of Object.entries(row).forEach:
\* acc = [studentId, department, studentSkills, skillFreq]
classifyEntry(key, val, acc) ==
    IF Falsy(val) THEN acc
    ELSE LET valueStr == trim(val.v)
             keyStr == toLowerCase(key)
         IN  IF isIdColumn(keyStr) THEN [acc EXCEPT !.studentId = valueStr]
             ELSE IF isDeptColumn(keyStr) THEN [acc EXCEPT !.department = valueStr]
             ELSE IF isSkillsColumn(keyStr, valueStr)
                  THEN LET r == addTokens(tokensOf(valueStr),
                                    [studentSkills |-> acc.studentSkills,
                                     skillFreq |-> acc.skillFreq])
                       IN  [acc EXCEPT !.studentSkills = r.studentSkills,
                                       !.skillFreq = r.skillFreq]
                  ELSE acc

\* mutant of forEachEntry: the entries are visited from the last key to the first
RECURSIVE forEachEntryBackwards(_, _)
forEachEntryBackwards(row, acc) ==
    IF row = <<>> THEN acc
    ELSE forEachEntryBackwards(SubSeq(row, 1, Len(row) - 1),
             classifyEntry(row[Len(row)].key, row[Len(row)].val, acc))

\* Object.entries(row).forEach(...), in the key order of the row
RECURSIVE forEachEntry(_, _)
forEachEntry(row, acc) ==
    IF row = <<>> THEN acc
    ELSE forEachEntry(Tail(row), classifyEntry(Head(row).key, Head(row).val, acc))

\* mutant of defaultStudentId: the index is used as it is
defaultStudentIdFromZero(index) == <<"S", "t", "u", "d", "e", "n", "t", "-">> \o toDecimal(index)

\* `Student-${index + 1}` and "General"
defaultStudentId(index) == <<"S", "t", "u", "d", "e", "n", "t", "-">> \o toDecimal(index + 1)
defaultDepartment == <<"G", "e", "n", "e", "r", "a", "l">>

\* mutant of processRow: a row with zero keys is skipped
processRowSkipsEmpty(row, index, acc) ==
    IF Len(row) = 0 THEN acc
    ELSE
    LET r == forEachEntry(row, [studentId |-> defaultStudentId(index),
                                    department |-> defaultDepartment,
                                    studentSkills |-> <<>>,
                                    skillFreq |-> acc.skillFreq])
        IN  [validRows |-> IF Len(row) > 0 THEN acc.validRows + 1 ELSE acc.validRows,
             skillFreq |-> r.skillFreq,
             processedStudents |-> Append(acc.processedStudents,
                                          [id |-> r.studentId,
                                           department |-> r.department,
                                           skills |-> r.studentSkills]),
             departmentsFound |-> IF isOwnKeyName(r.department)
                              THEN setAdd(acc.departmentsFound, r.department)
                              ELSE acc.departmentsFound]

\* the callback of rawData.forEach, for the row at position index (from 0):
\* acc = [validRows, skillFreq, processedStudents, departmentsFound]
processRow(row, index, acc) ==
    LET r == forEachEntry(row, [studentId |-> defaultStudentId(index),
                                department |-> defaultDepartment,
                                studentSkills |-> <<>>,
                                skillFreq |-> acc.skillFreq])
    IN  [validRows |-> IF Len(row) > 0 THEN acc.validRows + 1 ELSE acc.validRows,
         skillFreq |-> r.skillFreq,
         processedStudents |-> Append(acc.processedStudents,
                                      [id |-> r.studentId,
                                       department |-> r.department,
                                       skills |-> r.studentSkills]),
         departmentsFound |-> IF isOwnKeyName(r.department)
                              THEN setAdd(acc.departmentsFound, r.department)
                              ELSE acc.departmentsFound]

RECURSIVE forEachRow(_, _, _)
forEachRow(rows, index, acc) ==
    IF index >= Len(rows) THEN acc
    ELSE forEachRow(rows, index + 1, processRow(rows[index + 1], index, acc))

\* mutant of sortsBefore: the comparator is a[1] - b[1]
sortsBeforeAscending(a, b) == a.count - b.count < 0

\* the comparator (a, b) => b[1] - a[1] is negative: a sorts before b
sortsBefore(a, b) == b.count - a.count < 0

\* Array.prototype.sort(comparator), a stable sort: an entry is preceded by the
\* entries that sort before it and by the earlier entries that compare equal
sortByCount(entries) ==
    LET n == Len(entries)
        ahead(i) == {j \in 1..n : \/ sortsBefore(entries[j], entries[i])
                                  \/ /\ j < i
                                     /\ ~sortsBefore(entries[i], entries[j])}
    IN  [k \in 1..n |-> entries[CHOOSE i \in 1..n : Cardinality(ahead(i)) = k - 1]]

\* Object.entries(skillFreq).sort(...).slice(0, 50).map(...)
sortedSkills(freq) == slice0(sortByCount(freq), TopSkillsLimit)

\* mutant of processAndUpload: the loop starts at the clock's reading
processAndUploadFromClock(rows, elapsed) ==
    LET acc == forEachRow(rows, elapsed, [validRows |-> 0, skillFreq |-> <<>>,
                                          processedStudents |-> <<>>,
                                          departmentsFound |-> <<>>])
    IN  [rawData |-> rows,
         skillFreq |-> acc.skillFreq,
         aiPayload |->
            [report |-> [totalRows |-> Len(rows),
                         validRows |-> acc.validRows,
                         missingValuesFixed |-> 0,
                         uniqueSkillsFound |-> Len(acc.skillFreq),
                         processingTimeMs |-> elapsed],
             topSkills |-> sortedSkills(acc.skillFreq),
             departments |-> acc.departmentsFound,
             rawStudents |-> acc.processedStudents,
             sample |-> slice0(rows, 5)]]

\* The whole pass over rows; elapsed is Math.round(performance.now() - startTime).
processAndUpload(rows, elapsed) ==
    LET acc == forEachRow(rows, 0, [validRows |-> 0, skillFreq |-> <<>>,
                                    processedStudents |-> <<>>,
                                    departmentsFound |-> <<>>])
    IN  [rawData |-> rows,
         skillFreq |-> acc.skillFreq,
         aiPayload |->
            [report |-> [totalRows |-> Len(rows),
                         validRows |-> acc.validRows,
                         missingValuesFixed |-> 0,
                         uniqueSkillsFound |-> Len(acc.skillFreq),
                         processingTimeMs |-> elapsed],
             topSkills |-> sortedSkills(acc.skillFreq),
             departments |-> acc.departmentsFound,
             rawStudents |-> acc.processedStudents,
             sample |-> slice0(rows, 5)]]

----------------------------------------------------------------------------
(* geminiService.analyzeSkillset: post-processing of the model's response *)

MissingSkillsLimit == 5

\* NaN, the value of 0 / 0: no percentage
NaN == -1

\* mutant of orOne: the fallback to 1 is forgotten
orOneForgotten(x) == x

\* x || 1
orOne(x) == IF x = 0 THEN 1 ELSE x

\* mutant of mathRoundPercent: the count is scaled but never divided
mathRoundPercentUndivided(matchCount, totalReq) == 100 * matchCount

\* Math.round((matchCount / totalReq) * 100) for matchCount >= 0: the nearest
\* integer, halves upwards; NaN when both are 0. (In IEEE doubles the quotient
\* of a tie such as 23/40 falls just below the half; no list of the model is
\* that long.)
mathRoundPercent(matchCount, totalReq) ==
    IF totalReq = 0 THEN NaN
    ELSE (200 * matchCount + totalReq) \div (2 * totalReq)

\* mutant of mapToLowerCase: the letter case is kept
mapToLowerCaseKept(a) == a

\* array.map(s => s.toLowerCase())
mapToLowerCase(a) == [i \in 1..Len(a) |-> toLowerCase(a[i])]

\* Set.prototype.has
has(S, x) == \E i \in 1..Len(S) : S[i] = x

\* mutant of containmentScan: only ss.includes(req) is tested
RECURSIVE containmentScanOneWay(_, _)
containmentScanOneWay(skillsLower, req) ==
    IF skillsLower = <<>> THEN FALSE
    ELSE IF includes(Head(skillsLower), req) THEN TRUE
    ELSE containmentScanOneWay(Tail(skillsLower), req)

\* mutant of containmentScan: the scan ends after the first skill, hit or not
containmentScanFirstOnly(skillsLower, req) ==
    /\ skillsLower /= <<>>
    /\ includes(Head(skillsLower), req) \/ includes(req, Head(skillsLower))

\* mutant of containmentScan: found unless some skill is unrelated to req
containmentScanNoneUnrelated(skillsLower, req) ==
    \A i \in 1..Len(skillsLower) :
        includes(skillsLower[i], req) \/ includes(req, skillsLower[i])

\* for (const ss of studentSkillsLower) { if (ss.includes(req) || req.includes(ss))
\*   { found = true; break; } }  -- in the iteration order of the Set
RECURSIVE containmentScan(_, _)
containmentScan(skillsLower, req) ==
    IF skillsLower = <<>> THEN FALSE
    ELSE IF includes(Head(skillsLower), req) \/ includes(req, Head(skillsLower)) THEN TRUE
    ELSE containmentScan(Tail(skillsLower), req)

\* found, after the exact test and the scan
isFound(skillsLower, req) == has(skillsLower, req) \/ containmentScan(skillsLower, req)

\* req.charAt(0).toUpperCase() + req.slice(1)
capitalize(req) == toUpperCase(charAt0(req)) \o slice1(req)

\* mutant of findDeptMap: only d.department.includes(raw.department) is tested
findDeptMapOneWay(aiResult, raw) ==
    LET maps == IF aiResult.mappingsDefined THEN aiResult.departmentMappings ELSE <<>>
        dep == toLowerCase(raw.department)
        hits == {i \in 1..Len(maps) : includes(toLowerCase(maps[i].department), dep)}
    IN  IF hits /= {} THEN <<maps[Min(hits)]>>
        ELSE IF Len(maps) > 0 THEN <<maps[1]>>
        ELSE <<>>

\* aiResult.departmentMappings?.find(...) || aiResult.departmentMappings?.[0],
\* as a sequence holding the mapping, or empty for undefined
findDeptMap(aiResult, raw) ==
    LET maps == IF aiResult.mappingsDefined THEN aiResult.departmentMappings ELSE <<>>
        dep == toLowerCase(raw.department)
        hits == {i \in 1..Len(maps) :
                    \/ includes(toLowerCase(maps[i].department), dep)
                    \/ includes(dep, toLowerCase(maps[i].department))}
    IN  IF hits /= {} THEN <<maps[Min(hits)]>>
        ELSE IF Len(maps) > 0 THEN <<maps[1]>>
        ELSE <<>>

\* defaultRole?.requiredSkills || []
defaultRequiredSkills(aiResult, raw) ==
    LET deptMap == findDeptMap(aiResult, raw)
    IN  IF deptMap = <<>> THEN <<>>
        ELSE IF Len(deptMap[1].possibleRoles) = 0 THEN <<>>
        ELSE deptMap[1].possibleRoles[1].requiredSkills

\* new Set(requiredSkills.map(s => s.toLowerCase()))
requiredSetOf(requiredSkills) == newSet(mapToLowerCase(requiredSkills))

\* requiredSet.forEach(...): acc = [matchCount, missing]
RECURSIVE bulkForEach(_, _, _)
bulkForEach(requiredSet, studentSkillsLower, acc) ==
    IF requiredSet = <<>> THEN acc
    ELSE LET req == Head(requiredSet)
         IN  bulkForEach(Tail(requiredSet), studentSkillsLower,
                 IF isFound(studentSkillsLower, req)
                 THEN [acc EXCEPT !.matchCount = @ + 1]
                 ELSE [acc EXCEPT !.missing = Append(@, capitalize(req))])

\* the callback of inputData.rawStudents.forEach: the StudentProfile of raw
studentProfile(aiResult, raw) ==
    LET requiredSet == requiredSetOf(defaultRequiredSkills(aiResult, raw))
        studentSkillsLower == newSet(mapToLowerCase(raw.skills))
        r == bulkForEach(requiredSet, studentSkillsLower,
                         [matchCount |-> 0, missing |-> <<>>])
        totalReq == orOne(Len(requiredSet))
    IN  [id |-> raw.id,
         department |-> raw.department,
         rawSkills |-> raw.skills,
         matchScore |-> mathRoundPercent(r.matchCount, totalReq),
         missingSkills |-> slice0(r.missing, MissingSkillsLimit)]

\* { ...aiResult, students, cleaningReport: inputData.report }
analysisResult(inputData, aiResult) ==
    [mappingsDefined |-> aiResult.mappingsDefined,
     departmentMappings |-> aiResult.departmentMappings,
     students |-> [i \in 1..Len(inputData.rawStudents) |->
                      studentProfile(aiResult, inputData.rawStudents[i])],
     cleaningReport |-> inputData.report]

----------------------------------------------------------------------------
(* Dashboard: the dynamic calculation effect and the role dropdown *)

RadarLimit == 6

\* data.students?.find(s => s.id === selectedStudentId), as a sequence of 0 or 1
findStudent(data, studentId) ==
    LET hits == {i \in 1..Len(data.students) : data.students[i].id = studentId}
    IN  IF hits = {} THEN <<>> ELSE <<data.students[Min(hits)]>>

\* data.departmentMappings || []
mappingsOf(data) == IF data.mappingsDefined THEN data.departmentMappings ELSE <<>>

\* possibleRoles.find(r => r.title === title)
findRole(possibleRoles, title) ==
    LET hits == {i \in 1..Len(possibleRoles) : possibleRoles[i].title = title}
    IN  IF hits = {} THEN <<>> ELSE <<possibleRoles[Min(hits)]>>

\* for (const dept of data.departmentMappings || []) { ... if (found) break; }
RECURSIVE findRoleDef(_, _)
findRoleDef(maps, title) ==
    IF maps = <<>> THEN <<>>
    ELSE IF findRole(Head(maps).possibleRoles, title) /= <<>>
         THEN findRole(Head(maps).possibleRoles, title)
         ELSE findRoleDef(Tail(maps), title)

\* requiredSkills.forEach(...): acc = [matchCount, missing]
RECURSIVE dynamicForEach(_, _, _)
dynamicForEach(requiredSkills, studentSkills, acc) ==
    IF requiredSkills = <<>> THEN acc
    ELSE LET req == Head(requiredSkills)
             reqLower == toLowerCase(req)
         IN  dynamicForEach(Tail(requiredSkills), studentSkills,
                 IF isFound(studentSkills, reqLower)
                 THEN [acc EXCEPT !.matchCount = @ + 1]
                 ELSE [acc EXCEPT !.missing = Append(@, req)])

\* requiredSkills.slice(0, 6).map(req => ({ subject, Student, Required, fullMark }))
comparisonData(requiredSkills, studentSkills) ==
    LET shown == slice0(requiredSkills, RadarLimit)
    IN  [i \in 1..Len(shown) |->
            [subject |-> shown[i],
             Student |-> IF has(studentSkills, toLowerCase(shown[i])) THEN 80 ELSE 20,
             Required |-> 100,
             fullMark |-> 100]]

\* the value given to setDynamicStats for a student and a role definition
dynamicStatsOf(student, roleDef) ==
    LET studentSkills == newSet(mapToLowerCase(student.rawSkills))
        requiredSkills == roleDef.requiredSkills
        r == dynamicForEach(requiredSkills, studentSkills,
                            [matchCount |-> 0, missing |-> <<>>])
    IN  [matchScore |-> mathRoundPercent(r.matchCount, orOne(Len(requiredSkills))),
         missing |-> r.missing,
         radarData |-> comparisonData(requiredSkills, studentSkills)]

\* mutant of dynamicEffect: the else branch leaves the result as it is
dynamicEffectKeeps(data, studentId, roleTitle, stats) ==
    IF data /= <<>> /\ studentId /= <<>> /\ roleTitle /= <<>>
    THEN LET student == findStudent(data[1], studentId)
             roleDef == findRoleDef(mappingsOf(data[1]), roleTitle)
         IN  IF student /= <<>> /\ roleDef /= <<>>
             THEN <<dynamicStatsOf(student[1], roleDef[1])>>
             ELSE stats
    ELSE stats

\* The effect body: the next dynamicStats (a sequence of 0 or 1; empty is null).
\* data is a sequence of 0 or 1 as well.
dynamicEffect(data, studentId, roleTitle, stats) ==
    IF data /= <<>> /\ studentId /= <<>> /\ roleTitle /= <<>>
    THEN LET student == findStudent(data[1], studentId)
             roleDef == findRoleDef(mappingsOf(data[1]), roleTitle)
         IN  IF student /= <<>> /\ roleDef /= <<>>
             THEN <<dynamicStatsOf(student[1], roleDef[1])>>
             ELSE stats
    ELSE <<>>

\* flatMap(m => m.possibleRoles)
RECURSIVE flatRoles(_)
flatRoles(maps) ==
    IF maps = <<>> THEN <<>> ELSE Head(maps).possibleRoles \o flatRoles(Tail(maps))

\* useMemo availableRoles
availableRoles(data, studentId) ==
    IF data = <<>> \/ studentId = <<>> THEN <<>>
    ELSE LET student == findStudent(data[1], studentId)
             maps == mappingsOf(data[1])
         IN  IF student = <<>> THEN <<>>
             ELSE LET hits == {i \in 1..Len(maps) :
                                 toLowerCase(maps[i].department)
                                     = toLowerCase(student[1].department)}
                  IN  IF hits /= {} THEN maps[Min(hits)].possibleRoles
                      ELSE flatRoles(maps)

----------------------------------------------------------------------------
(* The inputs of the model: raw rows, datasets and taxonomies *)

\* {"Student ID":"S1","Dept":"CS","Skills":"Python, SQL; Java"}
rowExample ==
    <<[key |-> <<"S", "t", "u", "d", "e", "n", "t", " ", "I", "D">>,
       val |-> Str(<<"S", "1">>)],
      [key |-> <<"D", "e", "p", "t">>,
       val |-> Str(<<"C", "S">>)],
      [key |-> <<"S", "k", "i", "l", "l", "s">>,
       val |-> Str(<<"P", "y", "t", "h", "o", "n", ",", " ", "S", "Q", "L", ";", " ", "J", "a", "v", "a">>)]>>

\* {"Notes":"irrelevant"}
rowNotes ==
    <<[key |-> <<"N", "o", "t", "e", "s">>,
       val |-> Str(<<"i", "r", "r", "e", "l", "e", "v", "a", "n", "t">>)]>>

\* {"ID":"S5","Skills":"Python, python","Tools":"PYTHON; SQL"}
rowDup ==
    <<[key |-> <<"I", "D">>,
       val |-> Str(<<"S", "5">>)],
      [key |-> <<"S", "k", "i", "l", "l", "s">>,
       val |-> Str(<<"P", "y", "t", "h", "o", "n", ",", " ", "p", "y", "t", "h", "o", "n">>)],
      [key |-> <<"T", "o", "o", "l", "s">>,
       val |-> Str(<<"P", "Y", "T", "H", "O", "N", ";", " ", "S", "Q", "L">>)]>>

\* {"Roll":"S6","Branch":"IT","Skills":"00, 0.0, 10, 7, Go"}
rowNum ==
    <<[key |-> <<"R", "o", "l", "l">>,
       val |-> Str(<<"S", "6">>)],
      [key |-> <<"B", "r", "a", "n", "c", "h">>,
       val |-> Str(<<"I", "T">>)],
      [key |-> <<"S", "k", "i", "l", "l", "s">>,
       val |-> Str(<<"0", "0", ",", " ", "0", ".", "0", ",", " ", "1", "0", ",", " ", "7", ",", " ", "G", "o">>)]>>

\* {}
rowEmpty ==
    <<>>

\* {"Name":"Al","Student Name":"Bo","Grade":"A"}
rowNames ==
    <<[key |-> <<"N", "a", "m", "e">>,
       val |-> Str(<<"A", "l">>)],
      [key |-> <<"S", "t", "u", "d", "e", "n", "t", " ", "N", "a", "m", "e">>,
       val |-> Str(<<"B", "o">>)],
      [key |-> <<"G", "r", "a", "d", "e">>,
       val |-> Str(<<"A">>)]>>

\* {"Dept ID":"D7","Program":"EE","Skills":"Java; SQL"}
rowBoth ==
    <<[key |-> <<"D", "e", "p", "t", " ", "I", "D">>,
       val |-> Str(<<"D", "7">>)],
      [key |-> <<"P", "r", "o", "g", "r", "a", "m">>,
       val |-> Str(<<"E", "E">>)],
      [key |-> <<"S", "k", "i", "l", "l", "s">>,
       val |-> Str(<<"J", "a", "v", "a", ";", " ", "S", "Q", "L">>)]>>

\* {"ID":0,"Dept":"","Skills":null,"Tools":"Go"}
rowZero ==
    <<[key |-> <<"I", "D">>,
       val |-> Num(<<"0">>)],
      [key |-> <<"D", "e", "p", "t">>,
       val |-> Str(<<>>)],
      [key |-> <<"S", "k", "i", "l", "l", "s">>,
       val |-> Null],
      [key |-> <<"T", "o", "o", "l", "s">>,
       val |-> Str(<<"G", "o">>)]>>

\* {"Skills":"' ab ', \"Go\", x"}
rowQuote ==
    <<[key |-> <<"S", "k", "i", "l", "l", "s">>,
       val |-> Str(<<"'", " ", "a", "b", " ", "'", ",", " ", "\"", "G", "o", "\"", ",", " ", "x">>)]>>

\* {"ID":"A1","Roll":"B2","Dept":"CS","Branch":"IT","Skills":"Go","Tools":"Java"}
rowLastWins ==
    <<[key |-> <<"I", "D">>,
       val |-> Str(<<"A", "1">>)],
      [key |-> <<"R", "o", "l", "l">>,
       val |-> Str(<<"B", "2">>)],
      [key |-> <<"D", "e", "p", "t">>,
       val |-> Str(<<"C", "S">>)],
      [key |-> <<"B", "r", "a", "n", "c", "h">>,
       val |-> Str(<<"I", "T">>)],
      [key |-> <<"S", "k", "i", "l", "l", "s">>,
       val |-> Str(<<"G", "o">>)],
      [key |-> <<"T", "o", "o", "l", "s">>,
       val |-> Str(<<"J", "a", "v", "a">>)]>>

\* {"Roll":"S2","Branch":"CS","Skills":"Python, SQL"}
rowPS ==
    <<[key |-> <<"R", "o", "l", "l">>,
       val |-> Str(<<"S", "2">>)],
      [key |-> <<"B", "r", "a", "n", "c", "h">>,
       val |-> Str(<<"C", "S">>)],
      [key |-> <<"S", "k", "i", "l", "l", "s">>,
       val |-> Str(<<"P", "y", "t", "h", "o", "n", ",", " ", "S", "Q", "L">>)]>>

\* {"ID":"S3","Skills":"react native"}
rowRN ==
    <<[key |-> <<"I", "D">>,
       val |-> Str(<<"S", "3">>)],
      [key |-> <<"S", "k", "i", "l", "l", "s">>,
       val |-> Str(<<"r", "e", "a", "c", "t", " ", "n", "a", "t", "i", "v", "e">>)]>>

\* {"ID":"S4","Dept":"IT","Skills":"javascript"}
rowJS ==
    <<[key |-> <<"I", "D">>,
       val |-> Str(<<"S", "4">>)],
      [key |-> <<"D", "e", "p", "t">>,
       val |-> Str(<<"I", "T">>)],
      [key |-> <<"S", "k", "i", "l", "l", "s">>,
       val |-> Str(<<"j", "a", "v", "a", "s", "c", "r", "i", "p", "t">>)]>>

\* {"ID":"S2","Dept":"EE"}
rowNoSkill ==
    <<[key |-> <<"I", "D">>,
       val |-> Str(<<"S", "2">>)],
      [key |-> <<"D", "e", "p", "t">>,
       val |-> Str(<<"E", "E">>)]>>

\* CS: Backend [Python, SQL, Java], Web [React]; IT: Frontend [JS]
taxCore ==
    [mappingsDefined |-> TRUE,
     departmentMappings |-> <<
     [department |-> <<"C", "S">>,
      possibleRoles |-> <<
         [title |-> <<"B", "a", "c", "k", "e", "n", "d">>,
          requiredSkills |-> <<<<"P", "y", "t", "h", "o", "n">>, <<"S", "Q", "L">>, <<"J", "a", "v", "a">>>>],
         [title |-> <<"W", "e", "b">>,
          requiredSkills |-> <<<<"R", "e", "a", "c", "t">>>>]>>],
     [department |-> <<"I", "T">>,
      possibleRoles |-> <<
         [title |-> <<"F", "r", "o", "n", "t", "e", "n", "d">>,
          requiredSkills |-> <<<<"J", "S">>>>]>>]>>]

\* General: Mobile [React]; CS: Data [Python, python, Java]; IT: Intern []
taxDup ==
    [mappingsDefined |-> TRUE,
     departmentMappings |-> <<
     [department |-> <<"G", "e", "n", "e", "r", "a", "l">>,
      possibleRoles |-> <<
         [title |-> <<"M", "o", "b", "i", "l", "e">>,
          requiredSkills |-> <<<<"R", "e", "a", "c", "t">>>>]>>],
     [department |-> <<"C", "S">>,
      possibleRoles |-> <<
         [title |-> <<"D", "a", "t", "a">>,
          requiredSkills |-> <<<<"P", "y", "t", "h", "o", "n">>, <<"p", "y", "t", "h", "o", "n">>, <<"J", "a", "v", "a">>>>]>>],
     [department |-> <<"I", "T">>,
      possibleRoles |-> <<
         [title |-> <<"I", "n", "t", "e", "r", "n">>,
          requiredSkills |-> <<>>]>>]>>]

\* CS: Full [Go, Rust, Ruby, Perl, JavaScript, Kotlin, Swift, Python]
taxLong ==
    [mappingsDefined |-> TRUE,
     departmentMappings |-> <<
     [department |-> <<"C", "S">>,
      possibleRoles |-> <<
         [title |-> <<"F", "u", "l", "l">>,
          requiredSkills |-> <<<<"G", "o">>, <<"R", "u", "s", "t">>, <<"R", "u", "b", "y">>, <<"P", "e", "r", "l">>, <<"J", "a", "v", "a", "S", "c", "r", "i", "p", "t">>, <<"K", "o", "t", "l", "i", "n">>, <<"S", "w", "i", "f", "t">>, <<"P", "y", "t", "h", "o", "n">>>>]>>]>>]

\* CS: Dev [Python]; IT: Dev [JS, javascript]
taxSameTitle ==
    [mappingsDefined |-> TRUE,
     departmentMappings |-> <<
     [department |-> <<"C", "S">>,
      possibleRoles |-> <<
         [title |-> <<"D", "e", "v">>,
          requiredSkills |-> <<<<"P", "y", "t", "h", "o", "n">>>>]>>],
     [department |-> <<"I", "T">>,
      possibleRoles |-> <<
         [title |-> <<"D", "e", "v">>,
          requiredSkills |-> <<<<"J", "S">>, <<"j", "a", "v", "a", "s", "c", "r", "i", "p", "t">>>>]>>]>>]

\* EE: Power [Go, go, Rust]
taxRepeat ==
    [mappingsDefined |-> TRUE,
     departmentMappings |-> <<
     [department |-> <<"E", "E">>,
      possibleRoles |-> <<
         [title |-> <<"P", "o", "w", "e", "r">>,
          requiredSkills |-> <<<<"G", "o">>, <<"g", "o">>, <<"R", "u", "s", "t">>>>]>>]>>]

\* Dept of IT: Ops [Linux]; cs: Coder [Python]; E: Power [Go]; C: Low [Java]
taxNames ==
    [mappingsDefined |-> TRUE,
     departmentMappings |-> <<
     [department |-> <<"D", "e", "p", "t", " ", "o", "f", " ", "I", "T">>,
      possibleRoles |-> <<
         [title |-> <<"O", "p", "s">>,
          requiredSkills |-> <<<<"L", "i", "n", "u", "x">>>>]>>],
     [department |-> <<"c", "s">>,
      possibleRoles |-> <<
         [title |-> <<"C", "o", "d", "e", "r">>,
          requiredSkills |-> <<<<"P", "y", "t", "h", "o", "n">>>>]>>],
     [department |-> <<"E">>,
      possibleRoles |-> <<
         [title |-> <<"P", "o", "w", "e", "r">>,
          requiredSkills |-> <<<<"G", "o">>>>]>>],
     [department |-> <<"C">>,
      possibleRoles |-> <<
         [title |-> <<"L", "o", "w">>,
          requiredSkills |-> <<<<"J", "a", "v", "a">>>>]>>]>>]

\* departmentMappings: []
taxEmpty ==
    [mappingsDefined |-> TRUE,
     departmentMappings |-> <<>>]

\* departmentMappings absent from the response
taxUndefined ==
    [mappingsDefined |-> FALSE,
     departmentMappings |-> <<>>]

\* {"ID":"A1","Roll":"","Dept":"CS","Branch":null,"Skills":"Go","Tools":0}
rowLastEmpty ==
    <<[key |-> <<"I", "D">>,
       val |-> Str(<<"A", "1">>)],
      [key |-> <<"R", "o", "l", "l">>,
       val |-> Str(<<>>)],
      [key |-> <<"D", "e", "p", "t">>,
       val |-> Str(<<"C", "S">>)],
      [key |-> <<"B", "r", "a", "n", "c", "h">>,
       val |-> Null],
      [key |-> <<"S", "k", "i", "l", "l", "s">>,
       val |-> Str(<<"G", "o">>)],
      [key |-> <<"T", "o", "o", "l", "s">>,
       val |-> Num(<<"0">>)]>>

\* {"Skills":"Rock'n'roll; Go"}
rowApostrophe ==
    <<[key |-> <<"S", "k", "i", "l", "l", "s">>,
       val |-> Str(<<"R", "o", "c", "k", "'", "n", "'", "r", "o", "l", "l", ";", " ", "G", "o">>)]>>

\* {"ID":"S8","Skills":"<U+FB01>nance, finance"}
rowLigature ==
    <<[key |-> <<"I", "D">>,
       val |-> Str(<<"S", "8">>)],
      [key |-> <<"S", "k", "i", "l", "l", "s">>,
       val |-> Str(<<fiLigature, "n", "a", "n", "c", "e", ",", " ",
                     "f", "i", "n", "a", "n", "c", "e">>)]>>

\* {"ID":"S9","Full Name":"Java, Go","Dept":"CS","Grade":"A","Skills":"Go; SQL","Level":7}
rowIgnored ==
    <<[key |-> <<"I", "D">>,
       val |-> Str(<<"S", "9">>)],
      [key |-> <<"F", "u", "l", "l", " ", "N", "a", "m", "e">>,
       val |-> Str(<<"J", "a", "v", "a", ",", " ", "G", "o">>)],
      [key |-> <<"D", "e", "p", "t">>,
       val |-> Str(<<"C", "S">>)],
      [key |-> <<"G", "r", "a", "d", "e">>,
       val |-> Str(<<"A">>)],
      [key |-> <<"S", "k", "i", "l", "l", "s">>,
       val |-> Str(<<"G", "o", ";", " ", "S", "Q", "L">>)],
      [key |-> <<"L", "e", "v", "e", "l">>,
       val |-> Num(<<"7">>)]>>

\* {"ID":"  ","Dept":" ","Skills":"Go"}
rowBlank ==
    <<[key |-> <<"I", "D">>,
       val |-> Str(<<" ", " ">>)],
      [key |-> <<"D", "e", "p", "t">>,
       val |-> Str(<<" ">>)],
      [key |-> <<"S", "k", "i", "l", "l", "s">>,
       val |-> Str(<<"G", "o">>)]>>

\* {"ID":"S7","Skills":"__proto__, Go"}
rowProto ==
    <<[key |-> <<"I", "D">>,
       val |-> Str(<<"S", "7">>)],
      [key |-> <<"S", "k", "i", "l", "l", "s">>,
       val |-> Str(<<"_", "_", "p", "r", "o", "t", "o", "_", "_", ",", " ", "G", "o">>)]>>

\* A skills cell with more distinct skills than topSkills holds: "aa,ab,ac,..."
bigLetters == <<"a", "b", "c", "d", "e", "f", "g", "h">>
bigToken(k) == <<bigLetters[(k \div Len(bigLetters)) + 1], bigLetters[(k % Len(bigLetters)) + 1]>>

\* n tokens, each of two letters, with a comma between neighbours
bigCell(n) ==
    [i \in 1..(3 * n - 1) |->
        IF i % 3 = 0 THEN "," ELSE bigToken((i - 1) \div 3)[i % 3]]

\* {"Skills":"aa,ab,...": TopSkillsLimit + 1 distinct skills}
rowBig == <<[key |-> <<"S", "k", "i", "l", "l", "s">>, val |-> Str(bigCell(TopSkillsLimit + 1))]>>

\* {"Skills":"<the last skill of rowBig>, <the one before it>"}
rowBigTail ==
    <<[key |-> <<"S", "k", "i", "l", "l", "s">>,
       val |-> Str(bigToken(TopSkillsLimit) \o <<",">> \o bigToken(TopSkillsLimit - 1))]>>

RowPool == {rowExample, rowNotes, rowDup, rowNum, rowEmpty, rowNames, rowBoth,
            rowZero, rowQuote, rowLastWins, rowPS}

\* every sequence of at most n rows of pool
SeqsUpTo(pool, n) == UNION {[1..k -> pool] : k \in 0..n}

\* the datasets of the ingestion specification
IngestDatasets ==
    SeqsUpTo(RowPool, MaxRows)
        \cup {<<rowExample, rowDup, rowEmpty, rowNum, rowNotes>>,
              <<rowBig>>, <<rowBig, rowBigTail>>, <<rowBigTail, rowBig>>,
              <<rowProto>>, <<rowExample, rowProto>>,
              <<rowLastEmpty>>, <<rowLastWins, rowLastEmpty>>,
              <<rowApostrophe>>, <<rowLigature>>,
              <<rowIgnored>>, <<rowExample, rowIgnored>>,
              <<rowBlank>>, <<rowExample, rowBlank>>}

\* the uploads of the application specification: the rows of a file and the
\* time its pass takes
cohortA == <<rowPS, rowRN, rowJS>>
cohortB == <<rowNoSkill, rowExample, rowEmpty>>
Cohorts == {[rows |-> cohortA, elapsed |-> 0], [rows |-> cohortB, elapsed |-> 1]}

Taxonomies == {taxCore, taxDup, taxLong, taxSameTitle, taxRepeat, taxNames, taxEmpty,
               taxUndefined}

\* Math.round(performance.now() - startTime)
MaxElapsedMs == 1
ElapsedMs == 0..MaxElapsedMs

\* text typed into the student filter that is no student's id
unknownId == <<"Z", "9">>

----------------------------------------------------------------------------
(* The state machine *)

Init ==
    /\ reading = 0
    /\ pending = <<>>
    /\ loading = FALSE
    /\ analysisData = <<>>
    /\ selectedStudentId = <<>>
    /\ selectedRoleTitle = <<>>
    /\ dynamicStats = <<>>

\* Dashboard renders the upload card when !isLoading && !data,
\* and the filters when !isLoading && data.
uploadCardShown == ~loading /\ analysisData = <<>>
filtersShown == ~loading /\ analysisData /= <<>>

removeAt(s, i) == SubSeq(s, 1, i - 1) \o SubSeq(s, i + 1, Len(s))

\* Dashboard.handleFileUpload: a file is chosen and a FileReader starts
handleFileUpload ==
    /\ uploadCardShown
    /\ reading + Len(pending) < MaxUploads
    /\ reading' = reading + 1
    /\ UNCHANGED <<pending, loading, analysisData, selectedStudentId,
                   selectedRoleTitle, dynamicStats>>

\* reader.onload with parsed rows: processAndUpload(rows), whose onUpload is
\* App.handleAnalysis up to its await: setLoading(true), analyzeSkillset starts
readerOnload(rows, elapsed) ==
    /\ reading > 0
    /\ pending' = Append(pending, processAndUpload(rows, elapsed))
    /\ reading' = reading - 1
    /\ loading' = TRUE
    /\ UNCHANGED <<analysisData, selectedStudentId, selectedRoleTitle, dynamicStats>>

\* reader.onload with no result, or with a workbook that fails to parse (alert)
readerOnloadFails ==
    /\ reading > 0
    /\ reading' = reading - 1
    /\ UNCHANGED <<pending, loading, analysisData, selectedStudentId,
                   selectedRoleTitle, dynamicStats>>

\* analyzeSkillset call i resolves: setAnalysisData(result), finally
\* setLoading(false); the Dashboard effect runs for the new data
analysisSucceeds(i, aiResult) ==
    /\ i \in 1..Len(pending)
    /\ LET result == analysisResult(pending[i].aiPayload, aiResult)
       IN  /\ analysisData' = <<result>>
           /\ dynamicStats' = dynamicEffect(<<result>>, selectedStudentId,
                                            selectedRoleTitle, dynamicStats)
    /\ pending' = removeAt(pending, i)
    /\ loading' = FALSE
    /\ UNCHANGED <<reading, selectedStudentId, selectedRoleTitle>>

\* analyzeSkillset call i rejects (no response text, API or JSON error):
\* alert, finally setLoading(false)
analysisFails(i) ==
    /\ i \in 1..Len(pending)
    /\ pending' = removeAt(pending, i)
    /\ loading' = FALSE
    /\ UNCHANGED <<reading, analysisData, selectedStudentId, selectedRoleTitle,
                   dynamicStats>>

\* the student filter's onChange: setSelectedStudentId(text);
\* setSelectedRoleTitle(""); then the effect
selectStudent(text) ==
    /\ filtersShown
    /\ text /= selectedStudentId
    /\ selectedStudentId' = text
    /\ selectedRoleTitle' = <<>>
    /\ dynamicStats' = dynamicEffect(analysisData, text, <<>>, dynamicStats)
    /\ UNCHANGED <<reading, pending, loading, analysisData>>

\* mutant of selectRole: the effect writes its score into the student's profile
selectRoleWritesBack(title) ==
    /\ filtersShown
    /\ selectedStudentId /= <<>>
    /\ title /= selectedRoleTitle
    /\ selectedRoleTitle' = title
    /\ dynamicStats' = dynamicEffect(analysisData, selectedStudentId, title,
                                     dynamicStats)
    /\ analysisData' =
          IF dynamicStats' = <<>> THEN analysisData
          ELSE LET old == analysisData[1].students
               IN  <<[analysisData[1] EXCEPT !.students =
                        [i \in 1..Len(old) |->
                            IF old[i].id = selectedStudentId
                            THEN [old[i] EXCEPT !.matchScore = dynamicStats'[1].matchScore]
                            ELSE old[i]]]>>
    /\ UNCHANGED <<reading, pending, loading, selectedStudentId>>

\* the role dropdown's onChange: setSelectedRoleTitle(title); then the effect
selectRole(title) ==
    /\ filtersShown
    /\ selectedStudentId /= <<>>
    /\ title /= selectedRoleTitle
    /\ selectedRoleTitle' = title
    /\ dynamicStats' = dynamicEffect(analysisData, selectedStudentId, title,
                                     dynamicStats)
    /\ UNCHANGED <<reading, pending, loading, analysisData, selectedStudentId>>

\* what can be typed or picked in the student filter
studentChoices ==
    {<<>>, unknownId}
        \cup (IF analysisData = <<>> THEN {}
              ELSE {analysisData[1].students[i].id :
                        i \in 1..Len(analysisData[1].students)})

\* the options of the role dropdown
roleChoices ==
    LET roles == availableRoles(analysisData, selectedStudentId)
    IN  {<<>>} \cup {roles[i].title : i \in 1..Len(roles)}

Next ==
    \/ handleFileUpload
    \/ \E file \in Cohorts : readerOnload(file.rows, file.elapsed)
    \/ readerOnloadFails
    \/ \E i \in 1..Len(pending), aiResult \in Taxonomies : analysisSucceeds(i, aiResult)
    \/ \E i \in 1..Len(pending) : analysisFails(i)
    \/ \E text \in studentChoices : selectStudent(text)
    \/ \E title \in roleChoices : selectRole(title)

Spec == Init /\ [][Next]_vars

\* The ingestion pass alone: one file read in flight, any dataset loads
InitIngest ==
    /\ reading = 1
    /\ pending = <<>>
    /\ loading = FALSE
    /\ analysisData = <<>>
    /\ selectedStudentId = <<>>
    /\ selectedRoleTitle = <<>>
    /\ dynamicStats = <<>>

NextIngest ==
    \E rows \in IngestDatasets, elapsed \in ElapsedMs : readerOnload(rows, elapsed)

SpecIngest == InitIngest /\ [][NextIngest]_vars

\* Two ingestion passes: two file reads in flight (two files chosen before
\* either has loaded), each loading one of a few datasets after any time
TwiceDatasets ==
    {<<>>, <<rowExample>>, <<rowDup, rowExample>>, <<rowExample, rowDup>>,
     <<rowNotes, rowNum>>, <<rowBig, rowBigTail>>, <<rowBigTail, rowBig>>,
     <<rowEmpty, rowLastWins, rowQuote>>}

InitTwice ==
    /\ reading = 2
    /\ pending = <<>>
    /\ loading = FALSE
    /\ analysisData = <<>>
    /\ selectedStudentId = <<>>
    /\ selectedRoleTitle = <<>>
    /\ dynamicStats = <<>>

NextTwice ==
    \E rows \in TwiceDatasets, elapsed \in ElapsedMs : readerOnload(rows, elapsed)

SpecTwice == InitTwice /\ [][NextTwice]_vars

\* One upload and the session on its report: the file read in flight loads a
\* cohort after any time, its analysis resolves, and students and roles are
\* selected
NextOneUpload ==
    \/ \E file \in Cohorts, elapsed \in ElapsedMs : readerOnload(file.rows, elapsed)
    \/ \E i \in 1..Len(pending), aiResult \in Taxonomies : analysisSucceeds(i, aiResult)
    \/ \E text \in studentChoices : selectStudent(text)
    \/ \E title \in roleChoices : selectRole(title)

SpecOneUpload == InitIngest /\ [][NextOneUpload]_vars

----------------------------------------------------------------------------
(* What the properties are stated with *)

\* the student profiles of the bulk report
theStudents == IF analysisData = <<>> THEN <<>> ELSE analysisData[1].students

\* the required-skill list the bulk pass matched a profile against
RequiredOf(student) == defaultRequiredSkills(analysisData[1], student)

\* the student and the role definition of the current selection
selStudent == findStudent(analysisData[1], selectedStudentId)
selRole == findRoleDef(mappingsOf(analysisData[1]), selectedRoleTitle)

\* a student and a role are selected and both exist in the data
AdHocCurrent ==
    /\ analysisData /= <<>>
    /\ selectedStudentId /= <<>>
    /\ selectedRoleTitle /= <<>>
    /\ selStudent /= <<>>
    /\ selRole /= <<>>

\* the set of the elements of a list, letter case ignored
LowerSet(a) == {toLowerCase(a[k]) : k \in 1..Len(a)}

\* c and r are equal or one is a literal substring of the other
Related(c, r) == c = r \/ includes(c, r) \/ includes(r, c)

\* some candidate is related to r once both are lowercased
Satisfies(candidates, r) ==
    \E i \in 1..Len(candidates) : Related(toLowerCase(candidates[i]), toLowerCase(r))

\* the positions of required whose skill is satisfied, and those whose skill is not
SatisfiedAt(required, candidates) ==
    {k \in 1..Len(required) : Satisfies(candidates, required[k])}
UnsatisfiedAt(required, candidates) ==
    {k \in 1..Len(required) : ~Satisfies(candidates, required[k])}
UnsatisfiedSet(required, candidates) ==
    {toLowerCase(required[k]) : k \in UnsatisfiedAt(required, candidates)}

\* the whole percentage nearest to 100 * num / den, a half going up (den > 0)
RoundHalfUp(num, den) ==
    CHOOSE q \in 0..100 : (2 * q - 1) * den <= 200 * num /\ 200 * num < (2 * q + 1) * den

AtLeastOne(n) == IF n < 1 THEN 1 ELSE n

----------------------------------------------------------------------------
(* C1 *)

\* C1: in the bulk report and in the ad-hoc result, matchScore is an integer
\* between 0 and 100.
C1_ScoreBound ==
    /\ \A i \in 1..Len(theStudents) : theStudents[i].matchScore \in 0..100
    /\ dynamicStats /= <<>> => dynamicStats[1].matchScore \in 0..100

\* both paths have produced a full score, and the bulk path a zero score too
C1_Witness ==
    /\ \E i \in 1..Len(theStudents) :
          theStudents[i].matchScore = 100 /\ RequiredOf(theStudents[i]) /= <<>>
    /\ \E i \in 1..Len(theStudents) :
          theStudents[i].matchScore = 0 /\ RequiredOf(theStudents[i]) /= <<>>
    /\ AdHocCurrent
    /\ dynamicStats /= <<>>
    /\ dynamicStats[1].matchScore = 100

----------------------------------------------------------------------------
(* C3 *)

\* the score of the claim: satisfied entries over the length of the list as given
ClaimedScore(required, candidates) ==
    RoundHalfUp(Cardinality(SatisfiedAt(required, candidates)),
                AtLeastOne(Len(required)))

\* C3: matchScore is round-half-up of 100 * matchedCount / max(1, totalRequired),
\* totalRequired being the length of the required list as given and matchedCount
\* the number of its satisfied entries, in the bulk and in the ad-hoc path.
C3_ScoreFormula ==
    /\ \A i \in 1..Len(theStudents) :
          theStudents[i].matchScore
              = ClaimedScore(RequiredOf(theStudents[i]), theStudents[i].rawSkills)
    /\ AdHocCurrent =>
          dynamicStats[1].matchScore
              = ClaimedScore(selRole[1].requiredSkills, selStudent[1].rawSkills)

----------------------------------------------------------------------------
(* C4 *)

\* C4: a required skill counts as satisfied exactly when some candidate skill,
\* both lowercased, equals it, contains it or is contained in it. Bulk path: the
\* reported skills are unsatisfied ones, all of them when they fit the report,
\* and the score counts the distinct required skills that are satisfied. Ad-hoc
\* path: the missing list holds exactly the unsatisfied entries and the score
\* counts the satisfied ones.
C4_SubstringContract ==
    /\ \A i \in 1..Len(theStudents) :
          LET st == theStudents[i]
              required == RequiredOf(st)
              unsat == UnsatisfiedSet(required, st.rawSkills)
              total == Cardinality(LowerSet(required))
          IN  /\ LowerSet(st.missingSkills) \subseteq unsat
              /\ Cardinality(unsat) <= MissingSkillsLimit
                    => LowerSet(st.missingSkills) = unsat
              /\ st.matchScore
                    = RoundHalfUp(total - Cardinality(unsat), AtLeastOne(total))
    /\ AdHocCurrent =>
          LET required == selRole[1].requiredSkills
              candidates == selStudent[1].rawSkills
          IN  /\ LowerSet(dynamicStats[1].missing) = UnsatisfiedSet(required, candidates)
              /\ Len(dynamicStats[1].missing)
                    = Cardinality(UnsatisfiedAt(required, candidates))
              /\ dynamicStats[1].matchScore = ClaimedScore(required, candidates)

\* "react native" satisfies "React" in the ad-hoc path, "javascript" does not
\* satisfy "JS" in the bulk path, and "java" satisfies "JavaScript" in it
C4_Witness ==
    /\ AdHocCurrent
    /\ selStudent[1].rawSkills = <<<<"R", "e", "a", "c", "t", " ", "n", "a", "t", "i", "v", "e">>>>
    /\ selRole[1].requiredSkills = <<<<"R", "e", "a", "c", "t">>>>
    /\ dynamicStats[1].matchScore = 100
    /\ \E i \in 1..Len(theStudents) :
          /\ theStudents[i].rawSkills = <<<<"J", "a", "v", "a", "s", "c", "r", "i", "p", "t">>>>
          /\ RequiredOf(theStudents[i]) = <<<<"J", "S">>>>
          /\ theStudents[i].missingSkills = <<<<"J", "s">>>>

----------------------------------------------------------------------------
(* C9 *)

\* C9: matching against an empty required-skill list gives matchScore 0 and an
\* empty missing list, in the bulk and in the ad-hoc path.
C9_EmptyRequirement ==
    /\ \A i \in 1..Len(theStudents) :
          RequiredOf(theStudents[i]) = <<>>
              => /\ theStudents[i].matchScore = 0
                 /\ theStudents[i].missingSkills = <<>>
    /\ (AdHocCurrent /\ selRole[1].requiredSkills = <<>>)
          => /\ dynamicStats[1].matchScore = 0
             /\ dynamicStats[1].missing = <<>>

\* a student with skills is matched against an empty list in both paths
C9_Witness ==
    /\ AdHocCurrent
    /\ selRole[1].requiredSkills = <<>>
    /\ selStudent[1].rawSkills /= <<>>
    /\ dynamicStats /= <<>>
    /\ RequiredOf(selStudent[1]) = <<>>

----------------------------------------------------------------------------
(* C10 *)

PythonSqlJava == <<<<"P", "y", "t", "h", "o", "n">>, <<"S", "Q", "L">>, <<"J", "a", "v", "a">>>>
PythonSql == {<<"p", "y", "t", "h", "o", "n">>, <<"s", "q", "l">>}
JustJava == <<<<"J", "a", "v", "a">>>>

\* some candidate equals r, letter case ignored
EqualsSome(candidates, r) ==
    \E i \in 1..Len(candidates) : toLowerCase(candidates[i]) = toLowerCase(r)

\* the distinct unsatisfied skills of required before position k
UnsatisfiedBefore(required, candidates, k) ==
    {toLowerCase(required[j]) :
        j \in {j \in UnsatisfiedAt(required, candidates) : j < k}}

\* the ad-hoc half of C10, and the bulk half without its report of unrelated skills
C10_Common ==
    /\ \A i \in 1..Len(theStudents) :
          LET st == theStudents[i]
              required == RequiredOf(st)
          IN  /\ \A k \in 1..Len(required) :
                    EqualsSome(st.rawSkills, required[k])
                        => toLowerCase(required[k]) \notin LowerSet(st.missingSkills)
              /\ (required /= <<>> /\ \A k \in 1..Len(required) :
                                         EqualsSome(st.rawSkills, required[k]))
                    => st.matchScore = 100
              /\ (LowerSet(st.rawSkills) = PythonSql /\ required = PythonSqlJava)
                    => st.matchScore = 67 /\ st.missingSkills = JustJava
    /\ AdHocCurrent =>
          LET required == selRole[1].requiredSkills
              candidates == selStudent[1].rawSkills
              missing == dynamicStats[1].missing
          IN  /\ \A k \in 1..Len(required) :
                    /\ EqualsSome(candidates, required[k])
                          => toLowerCase(required[k]) \notin LowerSet(missing)
                    /\ ~Satisfies(candidates, required[k])
                          => toLowerCase(required[k]) \in LowerSet(missing)
              /\ (LowerSet(candidates) = PythonSql /\ required = PythonSqlJava)
                    => dynamicStats[1].matchScore = 67 /\ missing = JustJava

\* C10 as stated: a required skill equal to a candidate skill ignoring case is
\* matched and never reported missing, and every required skill with no
\* substring relation to any candidate is reported missing, in both paths;
\* {"Python","SQL"} against ["Python","SQL","Java"] gives 67 and ["Java"].
C10_Original ==
    /\ C10_Common
    /\ \A i \in 1..Len(theStudents) :
          LET st == theStudents[i]
              required == RequiredOf(st)
          IN  \A k \in 1..Len(required) :
                 ~Satisfies(st.rawSkills, required[k])
                     => toLowerCase(required[k]) \in LowerSet(st.missingSkills)

\* C10 amended: as stated, except that the bulk path reports an unrelated
\* required skill (up to letter case) when fewer than 5 distinct unsatisfied
\* required skills precede it; the ad-hoc path reports every one.
C10_Amended ==
    /\ C10_Common
    /\ \A i \in 1..Len(theStudents) :
          LET st == theStudents[i]
              required == RequiredOf(st)
          IN  \A k \in 1..Len(required) :
                 (/\ ~Satisfies(st.rawSkills, required[k])
                  /\ Cardinality(UnsatisfiedBefore(required, st.rawSkills, k))
                        < MissingSkillsLimit)
                     => toLowerCase(required[k]) \in LowerSet(st.missingSkills)

\* the example of the claim, in the bulk report and in the ad-hoc result
C10_Witness ==
    /\ \E i \in 1..Len(theStudents) :
          /\ LowerSet(theStudents[i].rawSkills) = PythonSql
          /\ RequiredOf(theStudents[i]) = PythonSqlJava
          /\ theStudents[i].matchScore = 67
          /\ theStudents[i].missingSkills = JustJava
    /\ AdHocCurrent
    /\ LowerSet(selStudent[1].rawSkills) = PythonSql
    /\ selRole[1].requiredSkills = PythonSqlJava
    /\ dynamicStats[1].matchScore = 67
    /\ dynamicStats[1].missing = JustJava

----------------------------------------------------------------------------
(* The ingestion pass: what its properties are stated with *)

\* the normalized records of an upload
RecordsOf(call) == call.aiPayload.rawStudents

\* a text made of digits and at most one point only: purely numeric
PurelyNumeric(t) ==
    /\ t /= <<>>
    /\ \A k \in 1..Len(t) : t[k] \in Digits \cup {"."}
    /\ \E k \in 1..Len(t) : t[k] \in Digits

\* the kind of a non-empty cell by the lowercased name of its column, in the
\* order identifier, department, skills
ColumnKind(entry) ==
    LET name == toLowerCase(entry.key)
        has_(word) == includes(name, word)
    IN  IF \/ has_(<<"i", "d">>)
           \/ has_(<<"r", "o", "l", "l">>)
           \/ has_(<<"s", "t", "u", "d", "e", "n", "t">>) /\ ~has_(<<"n", "a", "m", "e">>)
        THEN "identifier"
        ELSE IF \/ has_(<<"d", "e", "p", "t">>)
                \/ has_(<<"b", "r", "a", "n", "c", "h">>)
                \/ has_(<<"p", "r", "o", "g", "r", "a", "m">>)
        THEN "department"
        ELSE IF ~has_(<<"n", "a", "m", "e">>) /\ Len(trim(entry.val.v)) > 1
        THEN "skills"
        ELSE "ignored"

\* the non-empty cells of row that are of the kind
CellsOf(row, kind) ==
    {j \in 1..Len(row) : ~Falsy(row[j].val) /\ ColumnKind(row[j]) = kind}

\* the trimmed value of the last cell of the kind, or the default
LastValue(row, kind, default) ==
    IF CellsOf(row, kind) = {} THEN default
    ELSE trim(row[Max(CellsOf(row, kind))].val.v)

StudentDash == <<"S", "t", "u", "d", "e", "n", "t", "-">>
General == <<"G", "e", "n", "e", "r", "a", "l">>

\* "Student-" followed by the position of the row, counted from 1 (below 10)
PlaceholderId(position) ==
    StudentDash \o <<(<<"1", "2", "3", "4", "5", "6", "7", "8", "9">>)[position]>>

----------------------------------------------------------------------------
(* C2 *)

\* C2: in the frequency table of an ingestion pass, the count of every skill is
\* the number of records whose skill set contains it.
C2_CountIsRecordCount ==
    \A c \in 1..Len(pending) :
        \A k \in 1..Len(pending[c].skillFreq) :
            pending[c].skillFreq[k].count
                = Cardinality({i \in 1..Len(RecordsOf(pending[c])) :
                                  has(RecordsOf(pending[c])[i].skills,
                                      pending[c].skillFreq[k].name)})

----------------------------------------------------------------------------
(* C5 *)

Irrelevant == <<<<"I", "r", "r", "e", "l", "e", "v", "a", "n", "t">>>>

\* the defaults of a row whose cells set neither id nor department
C5_Defaults(call, i) ==
    /\ RecordsOf(call)[i].id = PlaceholderId(i)
    /\ RecordsOf(call)[i].department = General

----------------------------------------------------------------------------
(* C6 *)

\* C6: every token of every normalized record is longer than one character and
\* is not purely numeric.
C6_NoNumericToken ==
    \A c \in 1..Len(pending) :
        \A i \in 1..Len(RecordsOf(pending[c])) :
            \A k \in 1..Len(RecordsOf(pending[c])[i].skills) :
                /\ Len(RecordsOf(pending[c])[i].skills[k]) > 1
                /\ ~PurelyNumeric(RecordsOf(pending[c])[i].skills[k])

----------------------------------------------------------------------------
(* C7 *)

\* C7: every non-empty cell is classified by the lowercased name of its column,
\* identifier before department before skills: the id of a record is the value
\* of its last identifier cell, its department that of its last department
\* cell, and it has skills only if it has a skills cell; the example row gives
\* id "S1", department "CS", skills {"Python","Sql","Java"}, and the column
\* "Dept ID", both identifier-like and department-like, sets the id only.
C7_Classification ==
    \A c \in 1..Len(pending) :
        \A i \in 1..Len(pending[c].rawData) :
            LET row == pending[c].rawData[i]
                rec == RecordsOf(pending[c])[i]
            IN  /\ rec.id = LastValue(row, "identifier", PlaceholderId(i))
                /\ rec.department = LastValue(row, "department", General)
                /\ CellsOf(row, "skills") = {} => rec.skills = <<>>
                /\ row = rowExample
                      => rec = [id |-> <<"S", "1">>,
                                department |-> <<"C", "S">>,
                                skills |-> <<<<"P", "y", "t", "h", "o", "n">>, <<"S", "q", "l">>, <<"J", "a", "v", "a">>>>]
                /\ row = rowBoth
                      => rec.id = <<"D", "7">> /\ rec.department = <<"E", "E">>

\* the example row and the row with the column "Dept ID" have been normalized
C7_Witness ==
    \E c \in 1..Len(pending) :
        /\ \E i \in 1..Len(pending[c].rawData) : pending[c].rawData[i] = rowExample
        /\ \E i \in 1..Len(pending[c].rawData) :
              /\ pending[c].rawData[i] = rowBoth
              /\ RecordsOf(pending[c])[i].id = <<"D", "7">>

----------------------------------------------------------------------------
(* C8 *)

\* where a skill is first encountered: the first record that has it and its
\* place in that record's skill set
FirstRecord(call, name) ==
    Min({i \in 1..Len(RecordsOf(call)) : has(RecordsOf(call)[i].skills, name)})
FirstPlace(call, name) ==
    LET skills == RecordsOf(call)[FirstRecord(call, name)].skills
    IN  CHOOSE k \in 1..Len(skills) : skills[k] = name
EncounteredBefore(call, a, b) ==
    \/ FirstRecord(call, a) < FirstRecord(call, b)
    \/ /\ FirstRecord(call, a) = FirstRecord(call, b)
       /\ FirstPlace(call, a) < FirstPlace(call, b)

\* entry a ranks before entry b: a larger count, or the same count and first
\* encountered earlier
RanksBefore(call, a, b) ==
    \/ a.count > b.count
    \/ a.count = b.count /\ EncounteredBefore(call, a.name, b.name)

EntriesOf(list) == {list[k] : k \in 1..Len(list)}

\* C8: topSkills lists entries of the frequency table by non-increasing count,
\* equal counts in the order of first encounter, and holds the first 50 entries
\* of that ranking (all of them when there are at most 50).
C8_TopSkills ==
    \A c \in 1..Len(pending) :
        LET call == pending[c]
            top == call.aiPayload.topSkills
        IN  /\ Len(top) <= TopSkillsLimit
            /\ Len(top) = IF Len(call.skillFreq) < TopSkillsLimit
                          THEN Len(call.skillFreq) ELSE TopSkillsLimit
            /\ EntriesOf(top) \subseteq EntriesOf(call.skillFreq)
            /\ \A k \in 1..Len(top) : \A l \in (k + 1)..Len(top) :
                  RanksBefore(call, top[k], top[l])
            /\ \A e \in EntriesOf(call.skillFreq) \ EntriesOf(top) :
                  RanksBefore(call, top[Len(top)], e)

\* more than 50 distinct skills, two of them counted twice: the last entry of
\* the table is ranked second and an entry counted once is left out
C8_Witness ==
    \E c \in 1..Len(pending) :
        LET top == pending[c].aiPayload.topSkills
        IN  /\ Len(pending[c].skillFreq) > TopSkillsLimit
            /\ Len(top) = TopSkillsLimit
            /\ top[1].count = 2 /\ top[2].count = 2 /\ top[3].count = 1
            /\ top[1].name = normalizeToken(bigToken(TopSkillsLimit - 1))
            /\ top[2].name = normalizeToken(bigToken(TopSkillsLimit))
            /\ pending[c].skillFreq[TopSkillsLimit + 1].name = top[2].name

----------------------------------------------------------------------------
(* C11 *)

\* the unsatisfied entries of required, in the order of the list
UnsatisfiedList(required, candidates) ==
    pick(required, UnsatisfiedAt(required, candidates))

\* C11: the missing-skill list holds the unsatisfied required skills in the
\* order of the required list (letter case aside); the bulk path exposes the
\* first 5 of them, the ad-hoc path all of them.
C11_MissingOrder ==
    /\ \A i \in 1..Len(theStudents) :
          LET st == theStudents[i]
              unsatisfied == UnsatisfiedList(RequiredOf(st), st.rawSkills)
          IN  /\ Len(st.missingSkills) <= MissingSkillsLimit
              /\ mapToLowerCase(st.missingSkills)
                    = mapToLowerCase(slice0(unsatisfied, MissingSkillsLimit))
    /\ AdHocCurrent =>
          mapToLowerCase(dynamicStats[1].missing)
              = mapToLowerCase(UnsatisfiedList(selRole[1].requiredSkills,
                                               selStudent[1].rawSkills))

----------------------------------------------------------------------------
(* C12 *)

\* call c of pending resolves in this step and its result becomes the data
Resolves(c) ==
    /\ c \in 1..Len(pending)
    /\ pending' = removeAt(pending, c)
    /\ analysisData' /= <<>>
    /\ analysisData' /= analysisData

\* the report of the step holds the cleaning report of the call and one profile
\* for each of its records, in input order, with the record's skill set
EmitsReportOf(call) ==
    LET result == analysisData'[1]
        records == call.aiPayload.rawStudents
    IN  /\ result.cleaningReport = call.aiPayload.report
        /\ Len(result.students) = Len(records)
        /\ \A i \in 1..Len(records) :
              /\ result.students[i].id = records[i].id
              /\ result.students[i].department = records[i].department
              /\ result.students[i].rawSkills = records[i].skills

\* a matchScore that is a number, as opposed to undefined or omitted
IsNumber(v) == v \in Int

\* C12: when the taxonomy holds no department mapping (absent or empty), the
\* bulk pass still emits the cleaning report and one profile per student with
\* its raw skill set, and the matchScore of each profile is undefined, not a
\* number.
C12_NoTaxonomy ==
    [][\A c \in 1..Len(pending) :
          (Resolves(c) /\ mappingsOf(analysisData'[1]) = <<>>)
              => /\ EmitsReportOf(pending[c])
                 /\ \A i \in 1..Len(analysisData'[1].students) :
                       ~IsNumber(analysisData'[1].students[i].matchScore)]_vars

\* the part of C12 the code keeps: report and profiles are emitted
C12_ReportEmitted ==
    [][\A c \in 1..Len(pending) :
          (Resolves(c) /\ mappingsOf(analysisData'[1]) = <<>>)
              => /\ EmitsReportOf(pending[c])
                 /\ \A i \in 1..Len(analysisData'[1].students) :
                       /\ analysisData'[1].students[i].matchScore = 0
                       /\ analysisData'[1].students[i].missingSkills = <<>>]_vars

----------------------------------------------------------------------------
(* C13 *)

\* the taxonomy departments whose name contains dept or is contained in it,
\* letter case ignored
DeptHits(maps, dept) ==
    {i \in 1..Len(maps) :
        Related(toLowerCase(maps[i].department), toLowerCase(dept))}

\* the required list of the first role of the first such department, or of the
\* first department when there is none; empty without a role
ExpectedRequired(maps, dept) ==
    LET chosen == IF DeptHits(maps, dept) /= {}
                  THEN maps[CHOOSE i \in DeptHits(maps, dept) :
                               \A j \in DeptHits(maps, dept) : i <= j]
                  ELSE maps[1]
    IN  IF maps = <<>> THEN <<>>
        ELSE IF chosen.possibleRoles = <<>> THEN <<>>
        ELSE chosen.possibleRoles[1].requiredSkills

\* the score and the report of the bulk matcher for a required list: over the
\* distinct lowercased skills of the list
BulkScoreFor(required, candidates) ==
    LET distinct == LowerSet(required)
    IN  RoundHalfUp(Cardinality({r \in distinct : Satisfies(candidates, r)}),
                    AtLeastOne(Cardinality(distinct)))
BulkMissingFor(required, candidates) ==
    slice0(newSet(mapToLowerCase(UnsatisfiedList(required, candidates))),
           MissingSkillsLimit)

\* C13: every profile of the bulk report is the match of its record against
\* the first role of the first taxonomy department whose name contains the
\* record's department or is contained in it, letter case ignored, and against
\* the first role of the first department when there is no such department.
C13_DefaultRole ==
    \A i \in 1..Len(theStudents) :
        LET st == theStudents[i]
            required == ExpectedRequired(mappingsOf(analysisData[1]), st.department)
        IN  /\ st.matchScore = BulkScoreFor(required, st.rawSkills)
            /\ mapToLowerCase(st.missingSkills) = BulkMissingFor(required, st.rawSkills)

\* one report with a department that contains the record's ("Dept of IT" for
\* IT), one equal but for letter case and ahead of a later hit ("cs", then "C",
\* for CS) and one contained in the record's ("E" for General)
C13_Witness ==
    /\ analysisData /= <<>>
    /\ analysisData[1].departmentMappings = taxNames.departmentMappings
    /\ \E i \in 1..Len(theStudents) :
          /\ theStudents[i].department = <<"I", "T">>
          /\ theStudents[i].missingSkills = <<<<"L", "i", "n", "u", "x">>>>
    /\ \E i \in 1..Len(theStudents) :
          /\ theStudents[i].department = <<"C", "S">>
          /\ theStudents[i].matchScore = 100
    /\ \E i \in 1..Len(theStudents) :
          /\ theStudents[i].department = <<"G", "e", "n", "e", "r", "a", "l">>
          /\ theStudents[i].missingSkills = <<<<"G", "o">>>>

\* a report in which no department matches and the first one is used
C13_Fallback ==
    \E i \in 1..Len(theStudents) :
        /\ DeptHits(mappingsOf(analysisData[1]), theStudents[i].department) = {}
        /\ mappingsOf(analysisData[1]) /= <<>>
        /\ theStudents[i].missingSkills /= <<>>

----------------------------------------------------------------------------
(* C14 *)

\* a step of the filters: the selected student or the selected role changes
SelectionChanges ==
    \/ selectedStudentId' /= selectedStudentId
    \/ selectedRoleTitle' /= selectedRoleTitle

\* C14: a selection of a student or of a role, and the recomputation it
\* starts, leaves the bulk report (students, department mappings, cleaning
\* report) as the bulk pass produced it: the report changes only when a bulk
\* pass delivers its result.
C14_BulkReportFrame ==
    [][/\ SelectionChanges => analysisData' = analysisData
       /\ analysisData' /= analysisData
             => /\ \E c \in 1..Len(pending) : pending' = removeAt(pending, c)
                /\ ~SelectionChanges]_vars

\* a recomputation has given a score that differs from the one of the report,
\* and the report still holds its own
C14_Witness ==
    /\ AdHocCurrent
    /\ dynamicStats /= <<>>
    /\ dynamicStats[1].matchScore /= selStudent[1].matchScore
    /\ selStudent[1].matchScore = BulkScoreFor(RequiredOf(selStudent[1]),
                                               selStudent[1].rawSkills)

----------------------------------------------------------------------------
(* C15 *)

----------------------------------------------------------------------------
(* C16 *)

\* the rows of a call that have at least one key
RowsWithKeys(call) == {i \in 1..Len(call.rawData) : Len(call.rawData[i]) > 0}

\* the ingestion half of C16, for the calls in flight
C16_OneRecordPerRow ==
    \A c \in 1..Len(pending) :
        LET report == pending[c].aiPayload.report
        IN  /\ Len(RecordsOf(pending[c])) = Len(pending[c].rawData)
            /\ report.totalRows = Len(pending[c].rawData)
            /\ report.validRows = Cardinality(RowsWithKeys(pending[c]))
            /\ report.validRows <= report.totalRows

\* C16: every input row, a row with zero keys included, gives exactly one
\* normalized record and, once the bulk pass delivers, exactly one student
\* profile, in input order; totalRows is the number of rows and validRows the
\* number of rows with at least one key.
C16_OneProfilePerRow ==
    [][/\ C16_OneRecordPerRow
       /\ C16_OneRecordPerRow'
       /\ \A c \in 1..Len(pending) :
             Resolves(c)
                => /\ EmitsReportOf(pending[c])
                   /\ Len(analysisData'[1].students) = Len(pending[c].rawData)
                   /\ analysisData'[1].cleaningReport.totalRows
                         = Len(analysisData'[1].students)]_vars

\* a report for a dataset with a row of zero keys: fewer valid rows than rows,
\* and a profile for that row
C16_Witness ==
    /\ analysisData /= <<>>
    /\ analysisData[1].cleaningReport.validRows < analysisData[1].cleaningReport.totalRows
    /\ Len(theStudents) = analysisData[1].cleaningReport.totalRows
    /\ theStudents[Len(theStudents)].id = PlaceholderId(Len(theStudents))
    /\ theStudents[Len(theStudents)].rawSkills = <<>>

----------------------------------------------------------------------------
(* C17 *)

\* the union of the skill sets of the records of a call
SkillsOfAll(call) ==
    UNION {{RecordsOf(call)[i].skills[k] : k \in 1..Len(RecordsOf(call)[i].skills)} :
              i \in 1..Len(RecordsOf(call))}

\* the keys of the frequency table
KeysOf(freq) == {freq[k].name : k \in 1..Len(freq)}

\* C17: uniqueSkillsFound is the number of distinct keys of the frequency
\* table, and that is the size of the union of the skill sets of all records.
C17_UniqueSkills ==
    \A c \in 1..Len(pending) :
        /\ pending[c].aiPayload.report.uniqueSkillsFound
              = Cardinality(KeysOf(pending[c].skillFreq))
        /\ Cardinality(KeysOf(pending[c].skillFreq))
              = Cardinality(SkillsOfAll(pending[c]))

\* the first half of C17, which the code keeps
C17_KeysCounted ==
    \A c \in 1..Len(pending) :
        /\ pending[c].aiPayload.report.uniqueSkillsFound
              = Cardinality(KeysOf(pending[c].skillFreq))
        /\ KeysOf(pending[c].skillFreq) = SkillsOfAll(pending[c]) \ {protoKey}

----------------------------------------------------------------------------
(* C18 *)

\* the unsatisfied entries of required as C18 reports them: as given, but for an
\* uppercase first letter
ReportedAsGiven(required, candidates) ==
    {capitalize(required[k]) : k \in UnsatisfiedAt(required, candidates)}

\* the bulk half: every skill of a profile's missing list is an unsatisfied
\* required skill in its original casing, first letter uppercased
C18_BulkCasing ==
    \A i \in 1..Len(theStudents) :
        \A k \in 1..Len(theStudents[i].missingSkills) :
            theStudents[i].missingSkills[k]
                \in ReportedAsGiven(RequiredOf(theStudents[i]), theStudents[i].rawSkills)

\* the ad-hoc half, likewise
C18_AdHocCasing ==
    AdHocCurrent =>
        \A k \in 1..Len(dynamicStats[1].missing) :
            dynamicStats[1].missing[k]
                \in ReportedAsGiven(selRole[1].requiredSkills, selStudent[1].rawSkills)

\* C18: an unsatisfied required skill is reported in its original casing apart
\* from its first letter, which is uppercased ("SQL" as "SQL", "java" as
\* "Java"), in the bulk path and in the ad-hoc path.
C18_OriginalCasing == C18_BulkCasing /\ C18_AdHocCasing

----------------------------------------------------------------------------
(* C19 *)

\* the columns of row of the kind, with or without a value
ColumnsOf(row, kind) == {j \in 1..Len(row) : ColumnKind(row[j]) = kind}

\* the trimmed value of the last column of the kind in key order, or the default
LastColumnValue(row, kind, default) ==
    IF ColumnsOf(row, kind) = {} THEN default
    ELSE trim(row[Max(ColumnsOf(row, kind))].val.v)

\* the normalized tokens of the skills cells of row
TokensOfCells(row, cells) ==
    UNION {LET kept == SelectSeq(tokensOf(trim(row[j].val.v)), keepToken)
           IN  {normalizeToken(kept[k]) : k \in 1..Len(kept)} :
              j \in cells}

SetOf(list) == {list[k] : k \in 1..Len(list)}

\* C19 as stated: when a row has several identifier (department) columns, the
\* id (department) of its record is the value of the last of them in key order,
\* and when it has several skills columns, the skill set is the union of the
\* tokens of all of them.
C19_Original ==
    \A c \in 1..Len(pending) :
        \A i \in 1..Len(pending[c].rawData) :
            LET row == pending[c].rawData[i]
                rec == RecordsOf(pending[c])[i]
            IN  /\ Cardinality(ColumnsOf(row, "identifier")) > 1
                      => rec.id = LastColumnValue(row, "identifier", PlaceholderId(i))
                /\ Cardinality(ColumnsOf(row, "department")) > 1
                      => rec.department = LastColumnValue(row, "department", General)
                /\ Cardinality(CellsOf(row, "skills")) > 1
                      => SetOf(rec.skills) = TokensOfCells(row, CellsOf(row, "skills"))

\* C19 amended: columns whose value is empty (an empty string, null, the number
\* 0) are passed over; the id (department) is the value of the last identifier
\* (department) column that has a value, and the skill set is the union of the
\* tokens of all skills columns.
C19_Amended ==
    \A c \in 1..Len(pending) :
        \A i \in 1..Len(pending[c].rawData) :
            LET row == pending[c].rawData[i]
                rec == RecordsOf(pending[c])[i]
            IN  /\ rec.id = LastValue(row, "identifier", PlaceholderId(i))
                /\ rec.department = LastValue(row, "department", General)
                /\ SetOf(rec.skills) = TokensOfCells(row, CellsOf(row, "skills"))

\* a row with two identifier, two department and two skills columns, all with
\* values, and a row whose last identifier and department columns are empty
C19_Witness ==
    \E c \in 1..Len(pending) :
        /\ Len(pending[c].rawData) = 2
        /\ pending[c].rawData[1] = rowLastWins
        /\ RecordsOf(pending[c])[1].id = <<"B", "2">>
        /\ RecordsOf(pending[c])[1].department = <<"I", "T">>
        /\ Len(RecordsOf(pending[c])[1].skills) = 2
        /\ pending[c].rawData[2] = rowLastEmpty
        /\ RecordsOf(pending[c])[2].id = <<"A", "1">>
        /\ RecordsOf(pending[c])[2].department = <<"C", "S">>

----------------------------------------------------------------------------
(* C20 *)

QuoteCharacters == {"'", "\""}

\* s without the quote characters that enclose it
StripEnclosing(s) ==
    LET inner == {i \in 1..Len(s) : s[i] \notin QuoteCharacters}
    IN  IF inner = {} THEN <<>> ELSE SubSeq(s, Min(inner), Max(inner))

\* the pieces of the skills cells of row, trimmed and without enclosing quotes
StrippedPieces(row) ==
    UNION {{StripEnclosing(trim(split(trim(row[j].val.v), {",", ";"})[k])) :
               k \in 1..Len(split(trim(row[j].val.v), {",", ";"}))} :
              j \in CellsOf(row, "skills")}

\* the skill set C20 describes: the pieces longer than one character that are
\* no pure number, title-cased
ClaimedSkills(row) ==
    {normalizeToken(q) :
        q \in {q \in StrippedPieces(row) : Len(trim(q)) > 1 /\ ~PurelyNumeric(q)}}

\* no kept token begins or ends with whitespace
C20_NoOuterBlank ==
    \A c \in 1..Len(pending) :
        \A i \in 1..Len(RecordsOf(pending[c])) :
            \A k \in 1..Len(RecordsOf(pending[c])[i].skills) :
                LET t == RecordsOf(pending[c])[i].skills[k]
                IN  t /= <<>> /\ t[1] /= " " /\ t[Len(t)] /= " "

\* the kept tokens are the pieces, with only their enclosing quotes removed,
\* that are longer than one character and no pure number
C20_KeptPieces ==
    \A c \in 1..Len(pending) :
        \A i \in 1..Len(pending[c].rawData) :
            SetOf(RecordsOf(pending[c])[i].skills) = ClaimedSkills(pending[c].rawData[i])

\* C20: the pieces of a skills value, split on ',' or ';', are trimmed and lose
\* their enclosing quotes only; a piece is kept exactly when its trimmed length
\* exceeds 1 and it is no pure number; a kept token has no leading or trailing
\* whitespace.
C20_Tokenization == C20_NoOuterBlank /\ C20_KeptPieces

----------------------------------------------------------------------------
(* C21 *)

\* t is in title case: its first character is no lowercase letter and no
\* later character is an uppercase letter
IsLowerLetter(c) == c = fiLigature \/ \E i \in 1..Len(LowerCaseLetters) : LowerCaseLetters[i] = c
IsUpperLetter(c) == \E i \in 1..Len(UpperCaseLetters) : UpperCaseLetters[i] = c
TitleCase(t) ==
    /\ t /= <<>>
    /\ ~IsLowerLetter(t[1])
    /\ \A i \in 2..Len(t) : ~IsUpperLetter(t[i])

\* no two elements of the skill set are equal once letter case is ignored
CaseDistinct(skills) ==
    \A i, j \in 1..Len(skills) :
        toLowerCase(skills[i]) = toLowerCase(skills[j]) => i = j

\* C21: every stored skill token is in title case, and the skill set of a
\* record never holds two tokens that are equal ignoring letter case.
C21_TitleCaseSet ==
    \A c \in 1..Len(pending) :
        \A i \in 1..Len(RecordsOf(pending[c])) :
            LET skills == RecordsOf(pending[c])[i].skills
            IN  /\ \A k \in 1..Len(skills) : TitleCase(skills[k])
                /\ CaseDistinct(skills)

\* the same over the rows whose text is ASCII, where the code keeps it
C21_AsciiRows ==
    \A c \in 1..Len(pending) :
        \A i \in 1..Len(RecordsOf(pending[c])) :
            LET skills == RecordsOf(pending[c])[i].skills
            IN  pending[c].rawData[i] /= rowLigature
                    => /\ \A k \in 1..Len(skills) : TitleCase(skills[k])
                       /\ CaseDistinct(skills)

\* tokens of one row that differ only in case have become one element
C21_Collapsed ==
    \E c \in 1..Len(pending) :
        /\ pending[c].rawData = <<rowDup>>
        /\ RecordsOf(pending[c])[1].skills
              = <<<<"P", "y", "t", "h", "o", "n">>, <<"S", "q", "l">>>>

----------------------------------------------------------------------------
(* C22 *)

\* a column that matches none of the classification rules: neither an
\* identifier nor a department column, and its name contains "name" or its
\* trimmed value has at most one character
Unclassified(entry) ==
    /\ ColumnKind(entry) \notin {"identifier", "department"}
    /\ \/ includes(toLowerCase(entry.key), <<"n", "a", "m", "e">>)
       \/ Len(trim(entry.val.v)) <= 1

\* the row without its unclassified columns
WithoutUnclassified(row) == SelectSeq(row, LAMBDA entry : ~Unclassified(entry))

\* C22: the columns that match none of the classification rules leave the
\* records (id, department, skill set) and the frequency table unchanged: the
\* pass gives the same records and the same table as for the rows without them.
C22_UnclassifiedFrame ==
    \A c \in 1..Len(pending) :
        LET rows == pending[c].rawData
            reduced == [i \in 1..Len(rows) |-> WithoutUnclassified(rows[i])]
        IN  reduced /= rows
                => LET again == processAndUpload(reduced, 0)
                   IN  /\ RecordsOf(again) = RecordsOf(pending[c])
                       /\ again.skillFreq = pending[c].skillFreq

\* a row with a "name" column holding skill-like text and two one-character
\* cells among its identifier, department and skills columns has been normalized
C22_Witness ==
    \E c \in 1..Len(pending) :
        /\ pending[c].rawData = <<rowExample, rowIgnored>>
        /\ Cardinality({j \in 1..Len(rowIgnored) : Unclassified(rowIgnored[j])}) = 3
        /\ RecordsOf(pending[c])[2]
              = [id |-> <<"S", "9">>, department |-> <<"C", "S">>,
                 skills |-> <<<<"G", "o">>, <<"S", "q", "l">>>>]
        /\ Len(pending[c].skillFreq) = 4

----------------------------------------------------------------------------
(* C23 *)

\* C23: with an empty candidate skill set and a non-empty required-skill list,
\* every required skill is unsatisfied and matchScore is 0, in the bulk
\* profile and in the ad-hoc result.
C23_EmptyCandidates ==
    /\ \A i \in 1..Len(theStudents) :
          LET student == theStudents[i]
              required == RequiredOf(student)
          IN  student.rawSkills = <<>> /\ required /= <<>>
                  => /\ student.matchScore = 0
                     /\ LowerSet(student.missingSkills) \subseteq LowerSet(required)
                     /\ Len(student.missingSkills)
                           = Min({MissingSkillsLimit, Cardinality(LowerSet(required))})
    /\ AdHocCurrent /\ selStudent[1].rawSkills = <<>> /\ selRole[1].requiredSkills /= <<>>
          => /\ dynamicStats /= <<>>
             /\ dynamicStats[1].matchScore = 0
             /\ dynamicStats[1].missing = selRole[1].requiredSkills

\* a student without skills has a bulk profile against a non-empty list, and is
\* selected with a role that requires something
C23_Witness ==
    /\ AdHocCurrent
    /\ selStudent[1].rawSkills = <<>>
    /\ RequiredOf(selStudent[1]) /= <<>>
    /\ selStudent[1].matchScore = 0
    /\ Len(selRole[1].requiredSkills) > 1
    /\ dynamicStats /= <<>>
    /\ Len(dynamicStats[1].missing) = Len(selRole[1].requiredSkills)

----------------------------------------------------------------------------
(* C24 *)

\* the role entry the bulk pass matched the student against, as a sequence of
\* 0 or 1
BulkRoleOf(student) ==
    LET deptMap == findDeptMap(analysisData[1], student)
    IN  IF deptMap = <<>> \/ Len(deptMap[1].possibleRoles) = 0 THEN <<>>
        ELSE <<deptMap[1].possibleRoles[1]>>

\* the selected role is the role of the selected student's bulk profile
SameRoleSelected ==
    /\ AdHocCurrent
    /\ dynamicStats /= <<>>
    /\ BulkRoleOf(selStudent[1]) = selRole

\* the two results agree: equal scores, and the bulk missing list is the first
\* 5 entries of the ad-hoc missing list up to letter case
ResultsAgree ==
    /\ selStudent[1].matchScore = dynamicStats[1].matchScore
    /\ mapToLowerCase(selStudent[1].missingSkills)
          = mapToLowerCase(slice0(dynamicStats[1].missing, MissingSkillsLimit))

\* the list names no skill twice, letter case ignored
NoRepeat(required) == Cardinality(LowerSet(required)) = Len(required)

\* C24: for the same student record and the same role, the bulk matchScore
\* equals the ad-hoc matchScore and the bulk missingSkills is the first 5
\* entries of the ad-hoc missing list up to letter case, for every
\* required-skill list.
C24_BulkEqualsAdHoc == SameRoleSelected => ResultsAgree

\* the same for the required-skill lists that name no skill twice, where the
\* two passes do agree
C24_WithoutRepeats ==
    SameRoleSelected /\ NoRepeat(selRole[1].requiredSkills) => ResultsAgree

\* the bulk role is selected for a student, its list names no skill twice, and
\* the student has some but not all of its skills
C24_Agreeing ==
    /\ SameRoleSelected
    /\ NoRepeat(selRole[1].requiredSkills)
    /\ dynamicStats[1].matchScore \in 1..99
    /\ ResultsAgree

----------------------------------------------------------------------------
(* C25 *)

\* every ordering of the elements of list
Orderings(list) ==
    {[k \in 1..Len(list) |-> list[p[k]]] :
        p \in {q \in [1..Len(list) -> 1..Len(list)] :
                  \A a, b \in 1..Len(list) : q[a] = q[b] => a = b}}

\* C25: the match result (matchScore and missing list) does not depend on the
\* iteration order of the candidate skill set: every ordering of a student's
\* skills gives the bulk profile and the ad-hoc result that the given order gives.
C25_OrderIndependent ==
    /\ \A i \in 1..Len(theStudents) :
          LET student == theStudents[i]
          IN  \A skills \in Orderings(student.rawSkills) :
                 LET again == studentProfile(analysisData[1],
                                  [id |-> student.id,
                                   department |-> student.department,
                                   skills |-> skills])
                 IN  /\ again.matchScore = student.matchScore
                     /\ again.missingSkills = student.missingSkills
    /\ AdHocCurrent
          => \A skills \in Orderings(selStudent[1].rawSkills) :
                LET again == dynamicStatsOf([selStudent[1] EXCEPT !.rawSkills = skills],
                                            selRole[1])
                IN  /\ dynamicStats /= <<>>
                    /\ again.matchScore = dynamicStats[1].matchScore
                    /\ again.missing = dynamicStats[1].missing

\* the selected student has three skills, and a required skill of the bulk
\* role and of the selected role is satisfied by containment through a skill
\* that is not the first of the set, none of the skills being equal to it
C25_Witness ==
    /\ AdHocCurrent
    /\ Len(selStudent[1].rawSkills) = 3
    /\ BulkRoleOf(selStudent[1]) = selRole
    /\ \E k \in 1..Len(selRole[1].requiredSkills) :
          LET r == toLowerCase(selRole[1].requiredSkills[k])
              c == mapToLowerCase(selStudent[1].rawSkills)
          IN  /\ \A j \in 1..Len(c) : c[j] /= r
              /\ ~Related(c[1], r)
              /\ \E j \in 2..Len(c) : Related(c[j], r)
    /\ dynamicStats /= <<>>
    /\ dynamicStats[1].matchScore > 0

----------------------------------------------------------------------------
(* C26 *)

\* the entry of the role dropdown that carries the selected title, as a
\* sequence of 0 or 1
OfferedRole ==
    findRole(availableRoles(analysisData, selectedStudentId), selectedRoleTitle)

\* the required skills the ad-hoc result was computed from, as far as the
\* radar shows them
SubjectsOf(stats) == [k \in 1..Len(stats.radarData) |-> stats.radarData[k].subject]

\* the ad-hoc result is the match against the required skills of role
UsesRole(role) ==
    /\ SubjectsOf(dynamicStats[1]) = slice0(role.requiredSkills, RadarLimit)
    /\ \A k \in 1..Len(dynamicStats[1].missing) :
          \E j \in 1..Len(role.requiredSkills) :
              role.requiredSkills[j] = dynamicStats[1].missing[k]

\* some title is listed by two role entries of the taxonomy
TitleListedTwice ==
    LET roles == flatRoles(mappingsOf(analysisData[1]))
    IN  \E a, b \in 1..Len(roles) : a /= b /\ roles[a].title = roles[b].title

\* C26: the required-skill list used by the ad-hoc result for a selected role
\* is that of the role entry offered to the selected student in the role
\* dropdown, for every taxonomy.
C26_OfferedRoleUsed ==
    AdHocCurrent /\ dynamicStats /= <<>> /\ OfferedRole /= <<>>
        => UsesRole(OfferedRole[1])

\* the same for the taxonomies in which no title is listed twice
C26_DistinctTitles ==
    AdHocCurrent /\ dynamicStats /= <<>> /\ OfferedRole /= <<>> /\ ~TitleListedTwice
        => UsesRole(OfferedRole[1])

\* a role offered from the student's own department has been selected and used
C26_OwnDepartment ==
    /\ AdHocCurrent /\ dynamicStats /= <<>> /\ OfferedRole /= <<>>
    /\ ~TitleListedTwice
    /\ Len(mappingsOf(analysisData[1])) > 1
    /\ Len(availableRoles(analysisData, selectedStudentId))
          < Len(flatRoles(mappingsOf(analysisData[1])))
    /\ UsesRole(OfferedRole[1])

----------------------------------------------------------------------------
(* C27 *)

\* stats is the match of the candidate skills against the required skills: the
\* score, the unsatisfied skills in order, the radar subjects
IsMatchOf(stats, candidates, required) ==
    /\ \E n \in {Cardinality(SatisfiedAt(required, candidates))} :
          stats.matchScore = RoundHalfUp(n, AtLeastOne(Len(required)))
    /\ \E unsatisfied \in {UnsatisfiedAt(required, candidates)} :
          stats.missing = pick(required, unsatisfied)
    /\ SubjectsOf(stats) = slice0(required, RadarLimit)

\* the ad-hoc result, when there is one, belongs to the current selection: a
\* student id and a role title are selected, and the result is the match of
\* the student of that id against a role of that title
ResultIsCurrent ==
    dynamicStats /= <<>>
        => /\ selectedStudentId /= <<>>
           /\ selectedRoleTitle /= <<>>
           /\ analysisData /= <<>>
           /\ \E found \in {selStudent}, roles \in {flatRoles(mappingsOf(analysisData[1]))} :
                 /\ found /= <<>>
                 /\ \E k \in 1..Len(roles) :
                       /\ roles[k].title = selectedRoleTitle
                       /\ IsMatchOf(dynamicStats[1], found[1].rawSkills,
                                    roles[k].requiredSkills)

\* C27: after every selection of a student or of a role, once the effect has
\* run, the ad-hoc result is non-null only if a student id and a role title
\* are both selected, and it is then the match of the selected student against
\* the selected role, never a result of an earlier selection; a change of the
\* selected student clears the role selection and the result.
C27_ResultFollowsSelection ==
    [][SelectionChanges
          => /\ ResultIsCurrent'
             /\ selectedStudentId' /= selectedStudentId
                   => selectedRoleTitle' = <<>> /\ dynamicStats' = <<>>]_vars

\* a second student and a role have been selected, and the result on display is
\* the match of the two, with some skills satisfied and some missing
C27_Witness ==
    /\ AdHocCurrent
    /\ dynamicStats /= <<>>
    /\ ResultIsCurrent
    /\ selStudent[1] /= theStudents[1]
    /\ dynamicStats[1].matchScore \in 1..99
    /\ dynamicStats[1].missing /= <<>>

\* the same as a property of every state, which holds while one report is on
\* display and fails when a second report replaces it under a selection
C27_ResultAlwaysCurrent == ResultIsCurrent

----------------------------------------------------------------------------
(* C28 *)

\* some analyzeSkillset call started by an upload has not ended yet
CallInFlight == Len(pending) > 0

\* C28: the loading flag is true exactly while an analyzeSkillset call is in
\* flight: it is false once the calls have ended, in success or in failure,
\* and it is never false while some call is still pending, also when two file
\* reads have completed and started two analyses.
C28_LoadingWhileInFlight == loading <=> CallInFlight

\* the half the code keeps: the flag is never left set once no call is in flight
C28_NotLoadingWhenIdle == loading => CallInFlight

\* a call that fails leaves analysisData as it was: the report changes only
\* together with the end of a call
C28_FailureFrame ==
    [][analysisData' /= analysisData
          => \E c \in 1..Len(pending) : pending' = removeAt(pending, c)]_vars

----------------------------------------------------------------------------
(* C29 *)

\* the required skill is in the missing list of the result
ListedMissing(stats, req) == \E k \in 1..Len(stats.missing) : stats.missing[k] = req

\* C29: for each of the first 6 required skills, the radar value of the student
\* is 80 exactly when the skill was counted as satisfied in the matchScore, and
\* 20 exactly when it is in the missing list.
C29_RadarAgrees ==
    AdHocCurrent /\ dynamicStats /= <<>>
        => \A k \in 1..Len(dynamicStats[1].radarData) :
              LET point == dynamicStats[1].radarData[k]
              IN  /\ point.Student = 80
                        <=> Satisfies(selStudent[1].rawSkills, point.subject)
                  /\ point.Student = 20
                        <=> ListedMissing(dynamicStats[1], point.subject)

\* what the radar does show: 80 exactly when some skill of the student equals
\* the required skill, letter case ignored, and 20 otherwise; so a skill shown
\* at 80 is never in the missing list
C29_RadarExactOnly ==
    AdHocCurrent /\ dynamicStats /= <<>>
        => \A k \in 1..Len(dynamicStats[1].radarData) :
              LET point == dynamicStats[1].radarData[k]
              IN  /\ point.Student \in {20, 80}
                  /\ point.Student = 80
                        <=> toLowerCase(point.subject) \in LowerSet(selStudent[1].rawSkills)
                  /\ point.Student = 80 => ~ListedMissing(dynamicStats[1], point.subject)

\* a required skill satisfied by containment only is shown at 20 on the radar
\* of a result with nothing missing
C29_Disagreeing ==
    /\ AdHocCurrent /\ dynamicStats /= <<>>
    /\ dynamicStats[1].matchScore = 100
    /\ dynamicStats[1].missing = <<>>
    /\ \E k \in 1..Len(dynamicStats[1].radarData) :
          dynamicStats[1].radarData[k].Student = 20

----------------------------------------------------------------------------
(* C30 *)

\* the row without the cells whose value is empty, null or the number 0
WithoutEmptyCells(row) == SelectSeq(row, LAMBDA entry : ~Falsy(entry.val))

\* a cell whose value is empty, null or 0 is skipped whatever its column: the
\* pass gives the same records and the same table as for the rows without
\* those cells
EmptyCellsSkipped(call) ==
    LET rows == call.rawData
        reduced == [i \in 1..Len(rows) |-> WithoutEmptyCells(rows[i])]
    IN  reduced /= rows
            => LET again == processAndUpload(reduced, 0)
               IN  /\ RecordsOf(again) = RecordsOf(call)
                   /\ again.skillFreq = call.skillFreq

\* every record has a non-empty id and a non-empty department
IdAndDepartmentGiven(call) ==
    \A i \in 1..Len(RecordsOf(call)) :
        /\ RecordsOf(call)[i].id /= <<>>
        /\ RecordsOf(call)[i].department /= <<>>

\* C30: a cell whose value is empty, null or the number 0 is skipped whatever
\* its column name (it overrides no id or department and adds no skill), and
\* every normalized record has a non-empty id and a non-empty department.
C30_EmptyCells ==
    \A c \in 1..Len(pending) :
        /\ EmptyCellsSkipped(pending[c])
        /\ IdAndDepartmentGiven(pending[c])

\* the first half, which the code keeps
C30_Skipped == \A c \in 1..Len(pending) : EmptyCellsSkipped(pending[c])

\* rows with empty cells in identifier, department and skills columns have
\* been normalized, such a cell being the last of its kind in one of them
C30_SkippedReached ==
    \E c \in 1..Len(pending) :
        /\ pending[c].rawData = <<rowLastWins, rowLastEmpty>>
        /\ RecordsOf(pending[c])[2].id = <<"A", "1">>
        /\ RecordsOf(pending[c])[2].department = <<"C", "S">>
====
